---- MODULE Spec2Model ----
(***************************************************************************)
(* A model of rlox, a tree-walking interpreter for Lox written in Rust.    *)
(*                                                                         *)
(*   - the environment arena (src/src/environment.rs);                     *)
(*   - the runtime values and functions (src/src/value.rs, function.rs,    *)
(*     native.rs);                                                         *)
(*   - the interpreter's two visitors (src/src/interpreter.rs);            *)
(*   - the parser (src/src/parser.rs) and the driver (src/src/main.rs).    *)
(*                                                                         *)
(* Three specifications share the variables:                               *)
(*   SpecEnv  the arena alone, driven by its five operations;              *)
(*   Spec     one Interpreter instance fed statement lists, one            *)
(*            Interpreter::interpret call per step;                        *)
(*   SpecRun  the driver: parse a token vector, then evaluate.             *)
(*                                                                         *)
(* Numbers are f64 in the source and integers here; the programs below     *)
(* only use integral values.  EnvId is the 0-based Vec index of the        *)
(* source: the frame of id i is environments[i + 1].                       *)
(***************************************************************************)
EXTENDS Integers, Sequences, FiniteSets, TLC

VARIABLES
    environments,   \* EnvironmentArena.environments: the frames, by id
    last,           \* SpecEnv: the arena operation performed last
    globals,        \* Interpreter.globals
    environment,    \* Interpreter.environment, the current environment
    out,            \* the lines written to standard output
    log,            \* history: what the calls, blocks and declarations of
                    \* the running interpret call did
    result,         \* what the last interpret call returned
    unit,           \* the statement list given to the running interpret call
    pc,             \* the index of its next statement; 0 when none runs
    script,         \* Spec: the program family of this run
    lines,          \* Spec: the statement lists interpreted so far;
                    \* SpecRun: the source units read so far
    mode,           \* SpecRun: "file" (run_file) or "repl" (run_prompt)
    dpc,            \* SpecRun: where the driver is
    tokens,         \* Parser.tokens
    current,        \* Parser.current
    parsed,         \* the local `statements` of Parser::parse
    had_error,      \* ErrorReporter.had_error
    stderr,         \* the lines written to standard error
    exit_code       \* the exit status of the process, NoneId while it runs

----------------------------------------------------------------------------
(* Bounds *)

\* SpecEnv: the most frames the arena is grown to
MaxEnvs == 3
\* SpecEnv: the most bindings held by the whole arena
MaxBindings == 2
\* Spec: the most interpret calls made on one Interpreter
MaxLines == 4
\* SpecRun: the most lines read by one REPL session
MaxUnits == 3

----------------------------------------------------------------------------
(* Values: src/src/value.rs *)

Number(n) == [t |-> "Number", n |-> n]
String(s) == [t |-> "String", s |-> s]
Boolean(b) == [t |-> "Boolean", b |-> b]
Nil == [t |-> "Nil"]
\* Value::Function(LoxFunction {declaration, closure}): src/src/function.rs
Function(declaration, closure) ==
    [t |-> "Function", declaration |-> declaration, closure |-> closure]
FunctionDeclaration(name, params, body) ==
    [name |-> name, params |-> params, body |-> body]
\* Value::NativeFunction(NativeFunction::Clock): src/src/native.rs
NativeFunction_Clock == [t |-> "NativeFunction", native |-> "clock"]

is_truthy(v) ==
    CASE v.t = "Nil" -> FALSE
      [] v.t = "Boolean" -> v.b
      [] OTHER -> TRUE

LoxFunction_name(f) == f.declaration.name
LoxFunction_arity(f) == Len(f.declaration.params)
\* PartialEq for LoxFunction: the names are compared, nothing else
LoxFunction_eq(f, g) == f.declaration.name = g.declaration.name

is_equal(v, w) ==
    CASE v.t = "Nil" /\ w.t = "Nil" -> TRUE
      [] v.t = "Number" /\ w.t = "Number" -> v.n = w.n
      [] v.t = "String" /\ w.t = "String" -> v.s = w.s
      [] v.t = "Boolean" /\ w.t = "Boolean" -> v.b = w.b
      [] v.t = "Function" /\ w.t = "Function" -> LoxFunction_eq(v, w)
      [] v.t = "NativeFunction" /\ w.t = "NativeFunction" -> v.native = w.native
      [] OTHER -> FALSE

\* Display for Value; every Number of the model is integral
Display(v) ==
    CASE v.t = "Number" -> ToString(v.n)
      [] v.t = "String" -> v.s
      [] v.t = "Boolean" -> IF v.b THEN "true" ELSE "false"
      [] v.t = "Function" -> "<fn " \o LoxFunction_name(v) \o ">"
      [] v.t = "Nil" -> "nil"
      [] v.t = "NativeFunction" -> "<native fn " \o v.native \o ">"

\* the reading of SystemTime::now() by clock, in seconds
ClockSeconds == 0

NativeFunction_arity(f) == 0
NativeFunction_call(f, arguments) == Number(ClockSeconds)

----------------------------------------------------------------------------
(* The environment arena: src/src/environment.rs *)

\* Option<EnvId>::None, the parent of a root frame
NoneId == -1

\* an empty HashMap<String, Value>
HashMap_new == [n \in {} |-> Nil]

\* HashMap::insert: adds the key or replaces its value
insert(values, name, value) ==
    [n \in (DOMAIN values) \cup {name} |-> IF n = name THEN value ELSE values[n]]

Environment_new == [enclosing |-> NoneId, values |-> HashMap_new]

Environment_new_with_enclosing(enclosing) ==
    [enclosing |-> enclosing, values |-> HashMap_new]

EnvironmentArena_new == <<>>

\* the frame of an id
frame(envs, env_id) == envs[env_id + 1]

create_env(envs) ==
    [envs |-> Append(envs, Environment_new), id |-> Len(envs)]

create_env_with_enclosing(envs, enclosing) ==
    [envs |-> Append(envs, Environment_new_with_enclosing(enclosing)),
     id |-> Len(envs)]

\* mutant of define: the frame written to is made a root
define_reparents(envs, env_id, name, value) ==
    [envs EXCEPT ![env_id + 1].values = insert(@, name, value),
                 ![env_id + 1].enclosing = NoneId]

define(envs, env_id, name, value) ==
    [envs EXCEPT ![env_id + 1].values = insert(@, name, value)]

\* the text of anyhow!("Undefined variable '{}'.", name)
UndefinedVariable(name) == "Undefined variable '" \o name \o "'."

\* mutant of assign: at the root, an unbound name is bound there
RECURSIVE assign_creates(_, _, _, _)
assign_creates(envs, env_id, name, value) ==
    IF name \in DOMAIN frame(envs, env_id).values
    THEN [ok |-> TRUE,
          envs |-> [envs EXCEPT ![env_id + 1].values = insert(@, name, value)],
          message |-> ""]
    ELSE IF frame(envs, env_id).enclosing # NoneId
         THEN assign_creates(envs, frame(envs, env_id).enclosing, name, value)
         ELSE [ok |-> TRUE,
               envs |-> [envs EXCEPT ![env_id + 1].values = insert(@, name, value)],
               message |-> ""]

\* mutant of assign: no return after the insert, the walk goes on and
\* replaces every binding of the name
RECURSIVE assign_all(_, _, _, _)
assign_all(envs, env_id, name, value) ==
    LET here == name \in DOMAIN frame(envs, env_id).values
        envs1 == IF here
                 THEN [envs EXCEPT ![env_id + 1].values = insert(@, name, value)]
                 ELSE envs
    IN IF frame(envs, env_id).enclosing # NoneId
       THEN LET r == assign_all(envs1, frame(envs, env_id).enclosing, name, value)
            IN [r EXCEPT !.ok = r.ok \/ here,
                         !.message = IF r.ok \/ here THEN "" ELSE r.message]
       ELSE [ok |-> here, envs |-> envs1,
             message |-> IF here THEN "" ELSE UndefinedVariable(name)]

RECURSIVE assign(_, _, _, _)
assign(envs, env_id, name, value) ==
    IF name \in DOMAIN frame(envs, env_id).values
    THEN [ok |-> TRUE,
          envs |-> [envs EXCEPT ![env_id + 1].values = insert(@, name, value)],
          message |-> ""]
    ELSE IF frame(envs, env_id).enclosing # NoneId
         THEN assign(envs, frame(envs, env_id).enclosing, name, value)
         ELSE [ok |-> FALSE, envs |-> envs, message |-> UndefinedVariable(name)]

\* mutant of get: the walk goes on to the root, the outermost binding wins
RECURSIVE get_outermost(_, _, _)
get_outermost(envs, env_id, name) ==
    LET here == name \in DOMAIN frame(envs, env_id).values
        outer == IF frame(envs, env_id).enclosing # NoneId
                 THEN get_outermost(envs, frame(envs, env_id).enclosing, name)
                 ELSE [ok |-> FALSE, value |-> Nil,
                       message |-> UndefinedVariable(name)]
    IN IF outer.ok THEN outer
       ELSE IF here
            THEN [ok |-> TRUE, value |-> frame(envs, env_id).values[name],
                  message |-> ""]
            ELSE outer

RECURSIVE get(_, _, _)
get(envs, env_id, name) ==
    IF name \in DOMAIN frame(envs, env_id).values
    THEN [ok |-> TRUE, value |-> frame(envs, env_id).values[name], message |-> ""]
    ELSE IF frame(envs, env_id).enclosing # NoneId
         THEN get(envs, frame(envs, env_id).enclosing, name)
         ELSE [ok |-> FALSE, value |-> Nil, message |-> UndefinedVariable(name)]

----------------------------------------------------------------------------
(* SpecEnv: the arena driven by its operations *)

ArenaNames == {"a", "b"}
ArenaValues == {Number(1), Number(2)}

\* the ids the arena has issued
Issued(envs) == 0 .. Len(envs) - 1

RECURSIVE SumOver(_, _)
SumOver(f, S) ==
    IF S = {} THEN 0
    ELSE LET x == CHOOSE y \in S : TRUE IN f[x] + SumOver(f, S \ {x})

Bindings(envs) ==
    SumOver([i \in 1 .. Len(envs) |-> Cardinality(DOMAIN envs[i].values)],
            1 .. Len(envs))

NoOp == [op |-> "none", env_id |-> NoneId, name |-> "", value |-> Nil,
         before |-> <<>>, ok |-> TRUE, got |-> Nil, message |-> ""]

\* the interpreter's and the session's variables
ivars == <<globals, environment, out, log, result, unit, pc, script, lines>>

\* the parser's and the driver's variables
dvars == <<mode, dpc, tokens, current, parsed, had_error, stderr,
           exit_code>>

DriverIdle ==
    /\ mode = ""
    /\ dpc = ""
    /\ tokens = <<>>
    /\ current = 0
    /\ parsed = <<>>
    /\ had_error = FALSE
    /\ stderr = <<>>
    /\ exit_code = NoneId

\* the variables of the other specifications, parked
InterpreterIdle ==
    /\ globals = NoneId
    /\ environment = NoneId
    /\ out = <<>>
    /\ log = <<>>
    /\ result = [kind |-> "none"]
    /\ unit = <<>>
    /\ pc = 0
    /\ script = ""
    /\ lines = <<>>
    /\ DriverIdle

InitEnv ==
    /\ environments = EnvironmentArena_new
    /\ last = NoOp
    /\ InterpreterIdle

CreateEnv ==
    /\ Len(environments) < MaxEnvs
    /\ LET r == create_env(environments) IN
        /\ environments' = r.envs
        /\ last' = [NoOp EXCEPT !.op = "create_env", !.env_id = r.id,
                                !.before = environments]
    /\ UNCHANGED <<ivars, dvars>>

CreateEnvWithEnclosing ==
    /\ Len(environments) < MaxEnvs
    /\ \E enclosing \in Issued(environments) :
        LET r == create_env_with_enclosing(environments, enclosing) IN
        /\ environments' = r.envs
        /\ last' = [NoOp EXCEPT !.op = "create_env_with_enclosing",
                                !.env_id = r.id, !.before = environments]
        /\ UNCHANGED <<ivars, dvars>>

Define ==
    \E env_id \in Issued(environments), name \in ArenaNames, value \in ArenaValues :
        /\ Bindings(define(environments, env_id, name, value)) <= MaxBindings
        /\ environments' = define(environments, env_id, name, value)
        /\ last' = [NoOp EXCEPT !.op = "define", !.env_id = env_id, !.name = name,
                                !.value = value, !.before = environments]
        /\ UNCHANGED <<ivars, dvars>>

Assign ==
    \E env_id \in Issued(environments), name \in ArenaNames, value \in ArenaValues :
        LET r == assign(environments, env_id, name, value) IN
        /\ environments' = r.envs
        /\ last' = [NoOp EXCEPT !.op = "assign", !.env_id = env_id, !.name = name,
                                !.value = value, !.before = environments,
                                !.ok = r.ok, !.message = r.message]
        /\ UNCHANGED <<ivars, dvars>>

Get ==
    \E env_id \in Issued(environments), name \in ArenaNames :
        LET r == get(environments, env_id, name) IN
        /\ environments' = environments
        /\ last' = [NoOp EXCEPT !.op = "get", !.env_id = env_id, !.name = name,
                                !.before = environments, !.ok = r.ok,
                                !.got = r.value, !.message = r.message]
        /\ UNCHANGED <<ivars, dvars>>

vars == <<environments, last, globals, environment, out, log, result, unit, pc,
          script, lines, mode, dpc, tokens, current, parsed, had_error,
          stderr, exit_code>>

NextEnv ==
    \/ CreateEnv
    \/ CreateEnvWithEnclosing
    \/ Define
    \/ Assign
    \/ Get

SpecEnv == InitEnv /\ [][NextEnv]_vars

----------------------------------------------------------------------------
(* Claims about the arena, checked under SpecEnv *)

\* the ids on the walk from env_id toward the root, innermost first
RECURSIVE Walk(_, _)
Walk(envs, env_id) ==
    IF env_id = NoneId THEN <<>>
    ELSE <<env_id>> \o Walk(envs, envs[env_id + 1].enclosing)

\* the positions of the walk whose frame binds name
Holders(envs, env_id, name) ==
    {i \in 1 .. Len(Walk(envs, env_id)) :
        name \in DOMAIN envs[Walk(envs, env_id)[i] + 1].values}

\* the id of the first frame of the walk that binds name
FirstHolder(envs, env_id, name) ==
    LET H == Holders(envs, env_id, name)
    IN Walk(envs, env_id)[CHOOSE i \in H : \A j \in H : i <= j]

\* the canonical message, written out for the names of ArenaNames
CanonicalUndefined(name) ==
    IF name = "a" THEN "Undefined variable 'a'." ELSE "Undefined variable 'b'."

SameShape(envs1, envs2) ==
    /\ Len(envs1) = Len(envs2)
    /\ \A i \in 1 .. Len(envs1) :
        /\ envs1[i].enclosing = envs2[i].enclosing
        /\ DOMAIN envs1[i].values = DOMAIN envs2[i].values

\* C7: an assignment to a name bound in no frame of the walk fails with
\* "Undefined variable 'name'." and leaves the arena as it was; and no
\* assignment, failed or not, adds a binding to any frame.
C7_AssignNeverCreates ==
    last.op = "assign" =>
        /\ SameShape(last.before, environments)
        /\ Holders(last.before, last.env_id, last.name) = {} =>
            /\ ~last.ok
            /\ last.message = CanonicalUndefined(last.name)
            /\ environments = last.before

\* an assignment to an unbound name was made from a child frame while the
\* arena held bindings of the other name
C7_Witness ==
    /\ last.op = "assign"
    /\ Holders(last.before, last.env_id, last.name) = {}
    /\ Len(Walk(last.before, last.env_id)) = 2
    /\ Bindings(last.before) > 0

\* C8: a successful assign replaces the binding in the first frame of the
\* walk that binds the name and changes nothing else: not a binding of the
\* same name farther out, not another name, not a parent link.
C8_AssignFirstHolderOnly ==
    (last.op = "assign" /\ last.ok) =>
        /\ Holders(last.before, last.env_id, last.name) # {}
        /\ SameShape(last.before, environments)
        /\ \A i \in 1 .. Len(environments) :
            \A n \in DOMAIN environments[i].values :
                environments[i].values[n] =
                    IF /\ i = FirstHolder(last.before, last.env_id, last.name) + 1
                       /\ n = last.name
                    THEN last.value
                    ELSE last.before[i].values[n]

\* a successful assign changed a value while a frame farther out bound the
\* same name
C8_Witness ==
    /\ last.op = "assign"
    /\ last.ok
    /\ Cardinality(Holders(last.before, last.env_id, last.name)) = 2
    /\ environments # last.before

\* C10: get returns the value of the first frame of the walk that binds the
\* name, fails with "Undefined variable 'name'." exactly when no frame of
\* the walk binds it, and leaves the arena as it was.
C10_GetFirstHolder ==
    last.op = "get" =>
        /\ last.ok <=> Holders(last.before, last.env_id, last.name) # {}
        /\ last.ok =>
            last.got = last.before[FirstHolder(last.before, last.env_id,
                                               last.name) + 1].values[last.name]
        /\ ~last.ok => last.message = CanonicalUndefined(last.name)
        /\ environments = last.before

\* a get found a shadowing binding: two frames of the walk bind the name
\* with different values
C10_Witness ==
    /\ last.op = "get"
    /\ last.ok
    /\ Cardinality(Holders(last.before, last.env_id, last.name)) = 2
    /\ \E i \in 1 .. Len(last.before) :
        /\ last.name \in DOMAIN last.before[i].values
        /\ last.before[i].values[last.name] # last.got

\* every parent id is an id issued before the frame's own
ParentsBelow(envs) ==
    \A i \in 1 .. Len(envs) :
        envs[i].enclosing = NoneId \/ envs[i].enclosing \in 0 .. i - 2

\* the frames of before are still there, under the same ids and with the
\* same parents
KeepsFrames(before, after) ==
    /\ Len(after) >= Len(before)
    /\ \A i \in 1 .. Len(before) : after[i].enclosing = before[i].enclosing

\* the walk from env_id goes down the ids and ends at a root
EndsAtRoot(envs, env_id) ==
    LET w == Walk(envs, env_id) IN
    /\ Len(w) \in 1 .. Len(envs)
    /\ \A i \in 1 .. Len(w) - 1 : w[i + 1] < w[i]
    /\ frame(envs, w[Len(w)]).enclosing = NoneId

\* C28: ids are issued sequentially and never reused, no frame is removed
\* or re-parented, every parent id is smaller than the frame's own id, so
\* the parent links form a forest and every walk ends at a root.
C28_ArenaIsForest ==
    /\ ParentsBelow(environments)
    /\ \A env_id \in Issued(environments) : EndsAtRoot(environments, env_id)
    /\ last.op # "none" =>
        /\ KeepsFrames(last.before, environments)
        /\ IF last.op \in {"create_env", "create_env_with_enclosing"}
           THEN /\ last.env_id = Len(last.before)
                /\ Len(environments) = Len(last.before) + 1
           ELSE Len(environments) = Len(last.before)

\* a binding was written through a chain of frames as long as the arena,
\* which has a frame under a parent
C28_Witness ==
    /\ last.op \in {"define", "assign"}
    /\ Len(environments) = MaxEnvs
    /\ Len(Walk(environments, last.env_id)) = MaxEnvs
    /\ environments # last.before

----------------------------------------------------------------------------
(* The AST: src/src/expr.rs, src/src/stmt.rs.                              *)
(* A Token is modelled by what the interpreter reads of it: the lexeme of  *)
(* a name, the token_type of an operator.                                  *)

\* Option::None of an initializer, a return value, an else branch, a literal
None == [k |-> "None", t |-> "None"]

Expr_binary(left, operator, right) ==
    [k |-> "Binary", left |-> left, operator |-> operator, right |-> right]
Expr_unary(operator, right) ==
    [k |-> "Unary", operator |-> operator, right |-> right]
Expr_literal(value) == [k |-> "Literal", value |-> value]
Expr_grouping(expression) == [k |-> "Grouping", expression |-> expression]
Expr_variable(name) == [k |-> "Variable", name |-> name]
Expr_assign(name, value) == [k |-> "Assign", name |-> name, value |-> value]
Expr_logical(left, operator, right) ==
    [k |-> "Logical", left |-> left, operator |-> operator, right |-> right]
\* Expr::Call is not in src/src/expr.rs; the node is the one of the
\* specification's data model, read by Interpreter::visit_call_expr
Expr_call(callee, arguments) ==
    [k |-> "Call", callee |-> callee, arguments |-> arguments]

Stmt_expression(expr) == [k |-> "Expression", expression |-> expr]
Stmt_print(expr) == [k |-> "Print", expression |-> expr]
Stmt_var(name, initializer) ==
    [k |-> "Var", name |-> name, initializer |-> initializer]
Stmt_block(statements) == [k |-> "Block", statements |-> statements]
Stmt_if_stmt(condition, then_branch, else_branch) ==
    [k |-> "If", condition |-> condition, then_branch |-> then_branch,
     else_branch |-> else_branch]
Stmt_while_stmt(condition, body) ==
    [k |-> "While", condition |-> condition, body |-> body]
Stmt_function(name, params, body) ==
    [k |-> "Function", name |-> name, params |-> params, body |-> body]
Stmt_return_stmt(value) == [k |-> "Return", value |-> value]

----------------------------------------------------------------------------
(* The interpreter: src/src/interpreter.rs.                                *)
(*                                                                         *)
(* An operator takes the interpreter st = [environments, globals,          *)
(* environment, out, log] and returns [st, kind, value, message]: the      *)
(* interpreter as the call left it and the Result of the call.  kind is    *)
(* "Ok" (a statement's Ok(())), "Value" (an expression's Ok(value)),       *)
(* "RuntimeError", "ReturnValue" or "Error" (another anyhow error).        *)
(*                                                                         *)
(* interpreter.rs calls define, assign, get, clone, new_with_enclosing and *)
(* into_enclosing on its Environment fields; src/src/environment.rs keeps  *)
(* the frames in the arena and src/src/function.rs keeps a closure as an   *)
(* EnvId.  The interpreter's Environment is therefore a handle into the    *)
(* arena, as in the specification's environment model; the operators Env_* *)
(* are that binding.                                                       *)

Ok(st) == [st |-> st, kind |-> "Ok", value |-> Nil, message |-> ""]
OkValue(st, value) == [st |-> st, kind |-> "Value", value |-> value, message |-> ""]
\* RuntimeError {token, message}.into()
runtime_error(st, message) ==
    [st |-> st, kind |-> "RuntimeError", value |-> Nil, message |-> message]
\* ReturnValue {value}.into()
return_value(st, value) ==
    [st |-> st, kind |-> "ReturnValue", value |-> value, message |-> ""]
\* anyhow!(...)
anyhow(st, message) ==
    [st |-> st, kind |-> "Error", value |-> Nil, message |-> message]

\* what the ? operator returns early on
IsErr(r) == r.kind \in {"RuntimeError", "ReturnValue", "Error"}

Logged(st, event) == [st EXCEPT !.log = Append(@, event)]

\* a clone of an environment handle is the handle
Env_clone(env) == env

\* Environment::new_with_enclosing(enclosing), as the interpreter uses it
Env_new_with_enclosing(st, enclosing) ==
    LET c == create_env_with_enclosing(st.environments, enclosing)
    IN [st |-> [st EXCEPT !.environments = c.envs], env |-> c.id]

\* Environment::new(), as the interpreter uses it
Env_new(st) ==
    LET c == create_env(st.environments)
    IN [st |-> [st EXCEPT !.environments = c.envs], env |-> c.id]

\* env.define(name, value)
Env_define(st, env, name, value) ==
    [st EXCEPT !.environments = define(@, env, name, value)]

\* env.assign(name, value)
Env_assign(st, env, name, value) ==
    LET r == assign(st.environments, env, name, value)
    IN [st |-> [st EXCEPT !.environments = r.envs], ok |-> r.ok,
        message |-> r.message]

\* env.get(name)
Env_get(st, env, name) == get(st.environments, env, name)

\* env.into_enclosing()
Env_into_enclosing(st, env) == frame(st.environments, env).enclosing

Interpreter_new ==
    LET g == Env_new([environments |-> EnvironmentArena_new, globals |-> NoneId,
                      environment |-> NoneId, out |-> <<>>, log |-> <<>>])
        st == Env_define(g.st, g.env, "clock", NativeFunction_Clock)
    IN [st EXCEPT !.globals = Env_clone(g.env), !.environment = g.env]

\* Stmt::accept and Expr::accept are one dispatch on the node's variant
RECURSIVE accept(_, _)
\* statement.accept(self)
Stmt_accept(st, stmt) == accept(st, stmt)
\* expression.accept(self)
Expr_accept(st, expr) == accept(st, expr)

\* for statement in statements { statement.accept(self)?; } Ok(())
\* mutant of accept_each: a runtime error does not end the loop, the
\* statements after the failing one run and the first error is returned at
\* the end
RECURSIVE accept_each_goes_on(_, _, _)
accept_each_goes_on(st, statements, i) ==
    IF i > Len(statements) THEN Ok(st)
    ELSE LET r == Stmt_accept(st, statements[i])
             rest == accept_each_goes_on(r.st, statements, i + 1)
         IN IF r.kind = "RuntimeError" THEN [r EXCEPT !.st = rest.st]
            ELSE IF IsErr(r) THEN r
            ELSE rest

RECURSIVE accept_each(_, _, _)
accept_each(st, statements, i) ==
    IF i > Len(statements) THEN Ok(st)
    ELSE LET r == Stmt_accept(st, statements[i])
         IN IF IsErr(r) THEN r ELSE accept_each(r.st, statements, i + 1)

\* mutant of execute_block: the statements run with ?, an error or a return
\* signal leaves before the parent environment is restored
execute_block_leaks(st, statements) ==
    LET current_env == st.environment
        b == Env_new_with_enclosing(st, current_env)
        entered == [b.st EXCEPT !.environment = b.env]
        r == accept_each(entered, statements, 1)
        block_env == r.st.environment
        parent == Env_into_enclosing(r.st, block_env)
        restored == IF IsErr(r) THEN r.st
                    ELSE [r.st EXCEPT !.environment = parent]
        event == [ev |-> "block", before |-> current_env, frame |-> b.env,
                  issued |-> Len(st.environments),
                  grown |-> Len(entered.environments) - Len(st.environments),
                  parent |-> frame(entered.environments, b.env).enclosing,
                  after |-> restored.environment, path |-> r.kind]
    IN [r EXCEPT !.st = Logged(restored, event)]

execute_block(st, statements) ==
    LET current_env == st.environment
        b == Env_new_with_enclosing(st, current_env)
        entered == [b.st EXCEPT !.environment = b.env]
        r == accept_each(entered, statements, 1)
        block_env == r.st.environment
        parent == Env_into_enclosing(r.st, block_env)
        restored == IF parent # NoneId
                    THEN [r.st EXCEPT !.environment = parent]
                    ELSE LET e == Env_new(r.st)
                         IN [e.st EXCEPT !.environment = e.env]
        event == [ev |-> "block", before |-> current_env, frame |-> b.env,
                  issued |-> Len(st.environments),
                  grown |-> Len(entered.environments) - Len(st.environments),
                  parent |-> frame(entered.environments, b.env).enclosing,
                  after |-> restored.environment, path |-> r.kind]
    IN [r EXCEPT !.st = Logged(restored, event)]

check_number_operand(st, operand) ==
    IF operand.t = "Number" THEN OkValue(st, operand)
    ELSE runtime_error(st, "Operand must be a number.")

check_number_operands(st, left, right) ==
    IF left.t = "Number" /\ right.t = "Number" THEN Ok(st)
    ELSE runtime_error(st, "Operands must be numbers.")

\* for (param, arg) in params.iter().zip(arguments.iter()) { define }
RECURSIVE bind_params(_, _, _, _, _)
bind_params(st, env, params, arguments, i) ==
    IF i > Len(params) \/ i > Len(arguments) THEN st
    ELSE bind_params(Env_define(st, env, params[i], arguments[i]), env, params,
                     arguments, i + 1)

\* mutant of call_lox_function: the call frame is a child of the caller's
\* current environment (dynamic scope)
call_lox_function_dynamic(st, function, arguments) ==
    LET current_env == Env_clone(st.environment)
        c == Env_new_with_enclosing(st, Env_clone(st.environment))
        named == Env_define(c.st, c.env, LoxFunction_name(function), function)
        entered == bind_params([named EXCEPT !.environment = c.env], c.env,
                               function.declaration.params, arguments, 1)
        r == accept_each(entered, function.declaration.body, 1)
        restored == [r.st EXCEPT !.environment = current_env]
        event == [ev |-> "call", name |-> LoxFunction_name(function),
                  before |-> current_env, frame |-> c.env,
                  issued |-> Len(st.environments),
                  parent |-> frame(entered.environments, c.env).enclosing,
                  closure |-> function.closure,
                  callee |-> function,
                  own |-> Env_get(entered, c.env, LoxFunction_name(function)),
                  after |-> restored.environment, path |-> r.kind]
        done == Logged(restored, event)
    IN IF r.kind = "ReturnValue" THEN OkValue(done, r.value)
       ELSE IF IsErr(r) THEN [r EXCEPT !.st = done]
       ELSE OkValue(done, Nil)

\* mutant of call_lox_function: the body runs with ?, an error leaves
\* before the caller's environment is restored
call_lox_function_leaks(st, function, arguments) ==
    LET current_env == Env_clone(st.environment)
        c == Env_new_with_enclosing(st, Env_clone(function.closure))
        named == Env_define(c.st, c.env, LoxFunction_name(function), function)
        entered == bind_params([named EXCEPT !.environment = c.env], c.env,
                               function.declaration.params, arguments, 1)
        r == accept_each(entered, function.declaration.body, 1)
        restored == IF r.kind \in {"RuntimeError", "Error"} THEN r.st
                    ELSE [r.st EXCEPT !.environment = current_env]
        event == [ev |-> "call", name |-> LoxFunction_name(function),
                  before |-> current_env, frame |-> c.env,
                  issued |-> Len(st.environments),
                  parent |-> frame(entered.environments, c.env).enclosing,
                  closure |-> function.closure,
                  callee |-> function,
                  own |-> Env_get(entered, c.env, LoxFunction_name(function)),
                  after |-> restored.environment, path |-> r.kind]
        done == Logged(restored, event)
    IN IF r.kind = "ReturnValue" THEN OkValue(done, r.value)
       ELSE IF IsErr(r) THEN [r EXCEPT !.st = done]
       ELSE OkValue(done, Nil)

\* mutant of call_lox_function: the function is not defined under its own
\* name in the call environment
call_lox_function_unnamed(st, function, arguments) ==
    LET current_env == Env_clone(st.environment)
        c == Env_new_with_enclosing(st, Env_clone(function.closure))
        entered == bind_params([c.st EXCEPT !.environment = c.env], c.env,
                               function.declaration.params, arguments, 1)
        r == accept_each(entered, function.declaration.body, 1)
        restored == [r.st EXCEPT !.environment = current_env]
        event == [ev |-> "call", name |-> LoxFunction_name(function),
                  before |-> current_env, frame |-> c.env,
                  issued |-> Len(st.environments),
                  parent |-> frame(entered.environments, c.env).enclosing,
                  closure |-> function.closure,
                  callee |-> function,
                  own |-> Env_get(entered, c.env, LoxFunction_name(function)),
                  after |-> restored.environment, path |-> r.kind]
        done == Logged(restored, event)
    IN IF r.kind = "ReturnValue" THEN OkValue(done, r.value)
       ELSE IF IsErr(r) THEN [r EXCEPT !.st = done]
       ELSE OkValue(done, Nil)

call_lox_function(st, function, arguments) ==
    LET current_env == Env_clone(st.environment)
        c == Env_new_with_enclosing(st, Env_clone(function.closure))
        named == Env_define(c.st, c.env, LoxFunction_name(function), function)
        entered == bind_params([named EXCEPT !.environment = c.env], c.env,
                               function.declaration.params, arguments, 1)
        r == accept_each(entered, function.declaration.body, 1)
        restored == [r.st EXCEPT !.environment = current_env]
        event == [ev |-> "call", name |-> LoxFunction_name(function),
                  before |-> current_env, frame |-> c.env,
                  issued |-> Len(st.environments),
                  parent |-> frame(entered.environments, c.env).enclosing,
                  closure |-> function.closure,
                  callee |-> function,
                  own |-> Env_get(entered, c.env, LoxFunction_name(function)),
                  after |-> restored.environment, path |-> r.kind]
        done == Logged(restored, event)
    IN IF r.kind = "ReturnValue" THEN OkValue(done, r.value)
       ELSE IF IsErr(r) THEN [r EXCEPT !.st = done]
       ELSE OkValue(done, Nil)

(* StmtVisitor for Interpreter *)

visit_expression_stmt(st, expression) ==
    LET r == Expr_accept(st, expression)
    IN IF IsErr(r) THEN r ELSE Ok(r.st)

visit_print_stmt(st, expression) ==
    LET r == Expr_accept(st, expression)
    IN IF IsErr(r) THEN r
       ELSE Ok([r.st EXCEPT !.out = Append(@, Display(r.value))])

\* mutant of visit_var_stmt: the declaration goes through assign first and
\* so overwrites a binding of an enclosing frame
visit_var_stmt_outer(st, name, initializer) ==
    LET r == IF initializer.k # "None" THEN Expr_accept(st, initializer)
             ELSE OkValue(st, Nil)
        a == Env_assign(r.st, r.st.environment, name, r.value)
        defined == IF a.ok THEN a.st
                   ELSE Env_define(r.st, r.st.environment, name, r.value)
        event == [ev |-> "var", env |-> r.st.environment, name |-> name,
                  value |-> r.value, before |-> r.st.environments,
                  after |-> defined.environments]
    IN IF IsErr(r) THEN r ELSE Ok(Logged(defined, event))

visit_var_stmt(st, name, initializer) ==
    LET r == IF initializer.k # "None" THEN Expr_accept(st, initializer)
             ELSE OkValue(st, Nil)
        defined == Env_define(r.st, r.st.environment, name, r.value)
        event == [ev |-> "var", env |-> r.st.environment, name |-> name,
                  value |-> r.value, before |-> r.st.environments,
                  after |-> defined.environments]
    IN IF IsErr(r) THEN r ELSE Ok(Logged(defined, event))

visit_block_stmt(st, statements) == execute_block(st, statements)

visit_if_stmt(st, condition, then_branch, else_branch) ==
    LET c == Expr_accept(st, condition)
    IN IF IsErr(c) THEN c
       ELSE IF is_truthy(c.value)
            THEN LET t == Stmt_accept(c.st, then_branch)
                 IN IF IsErr(t) THEN t ELSE Ok(t.st)
            ELSE IF else_branch.k # "None"
                 THEN LET e == Stmt_accept(c.st, else_branch)
                      IN IF IsErr(e) THEN e ELSE Ok(e.st)
                 ELSE Ok(c.st)

\* mutant of visit_while_stmt: the condition is evaluated once, the body
\* runs at most once
visit_while_stmt_once(st, condition, body) ==
    LET c == Expr_accept(st, condition)
    IN IF IsErr(c) THEN c
       ELSE IF is_truthy(c.value)
            THEN LET b == Stmt_accept(c.st, body)
                 IN IF IsErr(b) THEN b ELSE Ok(b.st)
            ELSE Ok(c.st)

RECURSIVE visit_while_stmt(_, _, _)
visit_while_stmt(st, condition, body) ==
    LET c == Expr_accept(st, condition)
    IN IF IsErr(c) THEN c
       ELSE IF is_truthy(c.value)
            THEN LET b == Stmt_accept(c.st, body)
                 IN IF IsErr(b) THEN b
                    ELSE visit_while_stmt(b.st, condition, body)
            ELSE Ok(c.st)

\* mutant of visit_function_stmt: the closure is the global environment
visit_function_stmt_globals(st, name, params, body) ==
    LET declaration == FunctionDeclaration(name, params, body)
        placeholder == Env_define(st, st.environment, name, Nil)
        function == Function(declaration, Env_clone(placeholder.globals))
    IN Ok(Env_define(placeholder, placeholder.environment, name, function))

visit_function_stmt(st, name, params, body) ==
    LET declaration == FunctionDeclaration(name, params, body)
        placeholder == Env_define(st, st.environment, name, Nil)
        function == Function(declaration, Env_clone(placeholder.environment))
    IN Ok(Env_define(placeholder, placeholder.environment, name, function))

visit_return_stmt(st, value) ==
    LET r == IF value.k # "None" THEN Expr_accept(st, value)
             ELSE OkValue(st, Nil)
    IN IF IsErr(r) THEN r ELSE return_value(r.st, r.value)

(* ExprVisitor for Interpreter *)

visit_literal_expr(st, value) ==
    CASE value.t = "Boolean" -> OkValue(st, Boolean(value.b))
      [] value.t = "Nil" \/ value.t = "None" -> OkValue(st, Nil)
      [] value.t = "Number" -> OkValue(st, Number(value.n))
      [] value.t = "String" -> OkValue(st, String(value.s))

visit_grouping_expr(st, expression) == Expr_accept(st, expression)

visit_unary_expr(st, operator, right) ==
    LET r == Expr_accept(st, right)
    IN IF IsErr(r) THEN r
       ELSE CASE operator = "Bang" -> OkValue(r.st, Boolean(~is_truthy(r.value)))
              [] operator = "Minus" ->
                    LET n == check_number_operand(r.st, r.value)
                    IN IF IsErr(n) THEN n ELSE OkValue(r.st, Number(0 - n.value.n))
              [] OTHER -> anyhow(r.st, "Unknown unary operator")

\* l / r of two Numbers; the quotients of the model's programs are integral
Quotient(l, r) == l \div r

binary_number(st, operator, l, r) ==
    CASE operator = "Minus" -> OkValue(st, Number(l - r))
      [] operator = "Star" -> OkValue(st, Number(l * r))
      [] operator = "Slash" ->
            IF r = 0 THEN runtime_error(st, "Division by zero.")
            ELSE OkValue(st, Number(Quotient(l, r)))
      [] operator = "Greater" -> OkValue(st, Boolean(l > r))
      [] operator = "GreaterEqual" -> OkValue(st, Boolean(l >= r))
      [] operator = "Less" -> OkValue(st, Boolean(l < r))
      [] operator = "LessEqual" -> OkValue(st, Boolean(l <= r))

visit_binary_expr(st, left, operator, right) ==
    LET l == Expr_accept(st, left)
    IN IF IsErr(l) THEN l
       ELSE LET r == Expr_accept(l.st, right)
            IN IF IsErr(r) THEN r
               ELSE CASE operator = "Plus" ->
                        CASE l.value.t = "Number" /\ r.value.t = "Number" ->
                                OkValue(r.st, Number(l.value.n + r.value.n))
                          [] l.value.t = "String" /\ r.value.t = "String" ->
                                OkValue(r.st, String(l.value.s \o r.value.s))
                          [] l.value.t = "String" ->
                                OkValue(r.st, String(l.value.s \o Display(r.value)))
                          [] r.value.t = "String" ->
                                OkValue(r.st, String(Display(l.value) \o r.value.s))
                          [] OTHER ->
                                runtime_error(r.st,
                                    "Operands must be two numbers or two strings.")
                      [] operator \in {"Minus", "Star", "Slash", "Greater",
                                       "GreaterEqual", "Less", "LessEqual"} ->
                        LET c == check_number_operands(r.st, l.value, r.value)
                        IN IF IsErr(c) THEN c
                           ELSE binary_number(r.st, operator, l.value.n, r.value.n)
                      [] operator = "EqualEqual" ->
                        OkValue(r.st, Boolean(is_equal(l.value, r.value)))
                      [] operator = "BangEqual" ->
                        OkValue(r.st, Boolean(~is_equal(l.value, r.value)))
                      [] OTHER -> anyhow(r.st, "Unknown binary operator")

visit_variable_expr(st, name) ==
    LET r == Env_get(st, st.environment, name)
    IN IF r.ok THEN OkValue(st, r.value)
       ELSE runtime_error(st, "Undefined variable '" \o name \o "'.")

\* mutant of visit_assign_expr: the value of the expression is nil
visit_assign_expr_nil(st, name, value) ==
    LET val == Expr_accept(st, value)
    IN IF IsErr(val) THEN val
       ELSE LET a == Env_assign(val.st, val.st.environment, name, val.value)
            IN IF a.ok THEN OkValue(a.st, Nil)
               ELSE runtime_error(a.st, "Undefined variable '" \o name \o "'.")

visit_assign_expr(st, name, value) ==
    LET val == Expr_accept(st, value)
    IN IF IsErr(val) THEN val
       ELSE LET a == Env_assign(val.st, val.st.environment, name, val.value)
            IN IF a.ok THEN OkValue(a.st, val.value)
               ELSE runtime_error(a.st, "Undefined variable '" \o name \o "'.")

\* mutant of visit_logical_expr: both operands are evaluated, then one of
\* the two values is chosen
visit_logical_expr_eager(st, left, operator, right) ==
    LET l == Expr_accept(st, left)
        r == Expr_accept(l.st, right)
    IN IF IsErr(l) THEN l
       ELSE IF IsErr(r) THEN r
       ELSE CASE operator = "Or" ->
                    IF is_truthy(l.value) THEN OkValue(r.st, l.value) ELSE r
              [] operator = "And" ->
                    IF ~is_truthy(l.value) THEN OkValue(r.st, l.value) ELSE r
              [] OTHER -> anyhow(l.st, "Unknown logical operator")

\* mutant of visit_logical_expr: the result is the truth of the operand
visit_logical_expr_boolean(st, left, operator, right) ==
    LET l == Expr_accept(st, left)
        r == Expr_accept(l.st, right)
    IN IF IsErr(l) THEN l
       ELSE CASE operator = "Or" ->
                    IF is_truthy(l.value) THEN OkValue(l.st, Boolean(TRUE))
                    ELSE IF IsErr(r) THEN r
                    ELSE OkValue(r.st, Boolean(is_truthy(r.value)))
              [] operator = "And" ->
                    IF ~is_truthy(l.value) THEN OkValue(l.st, Boolean(FALSE))
                    ELSE IF IsErr(r) THEN r
                    ELSE OkValue(r.st, Boolean(is_truthy(r.value)))
              [] OTHER -> anyhow(l.st, "Unknown logical operator")

visit_logical_expr(st, left, operator, right) ==
    LET l == Expr_accept(st, left)
    IN IF IsErr(l) THEN l
       ELSE CASE operator = "Or" ->
                    IF is_truthy(l.value) THEN l ELSE Expr_accept(l.st, right)
              [] operator = "And" ->
                    IF ~is_truthy(l.value) THEN l ELSE Expr_accept(l.st, right)
              [] OTHER -> anyhow(l.st, "Unknown logical operator")

\* mutant of accept_arguments: the arguments are evaluated from the last
\* to the first
RECURSIVE accept_arguments_reversed(_, _, _, _)
accept_arguments_reversed(st, arguments, i, args) ==
    IF i > Len(arguments) THEN [r |-> Ok(st), args |-> args]
    ELSE LET k == Len(arguments) + 1 - i
             r == Expr_accept(st, arguments[k])
         IN IF IsErr(r) THEN [r |-> r, args |-> args]
            ELSE accept_arguments_reversed(r.st, arguments, i + 1,
                                           <<r.value>> \o args)

\* for argument in arguments { args.push(argument.accept(self)?); }
RECURSIVE accept_arguments(_, _, _, _)
accept_arguments(st, arguments, i, args) ==
    IF i > Len(arguments) THEN [r |-> Ok(st), args |-> args]
    ELSE LET r == Expr_accept(st, arguments[i])
         IN IF IsErr(r) THEN [r |-> r, args |-> args]
            ELSE accept_arguments(r.st, arguments, i + 1, Append(args, r.value))

ExpectedArguments(arity, got) ==
    "Expected " \o ToString(arity) \o " arguments but got " \o ToString(got) \o "."

\* mutant of visit_call_expr: the argument count is not compared with the
\* arity
visit_call_expr_unchecked(st, callee, arguments) ==
    LET c == Expr_accept(st, callee)
    IN IF IsErr(c) THEN c
       ELSE LET a == accept_arguments(c.st, arguments, 1, <<>>)
            IN IF IsErr(a.r) THEN a.r
               ELSE CASE c.value.t = "Function" ->
                        call_lox_function(a.r.st, c.value, a.args)
                      [] c.value.t = "NativeFunction" ->
                        OkValue(a.r.st, NativeFunction_call(c.value, a.args))
                      [] OTHER ->
                        runtime_error(a.r.st, "Can only call functions and classes.")

visit_call_expr(st, callee, arguments) ==
    LET c == Expr_accept(st, callee)
    IN IF IsErr(c) THEN c
       ELSE LET a == accept_arguments(c.st, arguments, 1, <<>>)
            IN IF IsErr(a.r) THEN a.r
               ELSE CASE c.value.t = "Function" ->
                        IF Len(arguments) # LoxFunction_arity(c.value)
                        THEN runtime_error(a.r.st,
                                ExpectedArguments(LoxFunction_arity(c.value),
                                                  Len(arguments)))
                        ELSE call_lox_function(a.r.st, c.value, a.args)
                      [] c.value.t = "NativeFunction" ->
                        IF Len(arguments) # NativeFunction_arity(c.value)
                        THEN runtime_error(a.r.st,
                                ExpectedArguments(NativeFunction_arity(c.value),
                                                  Len(arguments)))
                        ELSE OkValue(a.r.st, NativeFunction_call(c.value, a.args))
                      [] OTHER ->
                        runtime_error(a.r.st, "Can only call functions and classes.")

\* the Call arm that src/src/expr.rs lacks
Expr_accept_call(st, expr) == visit_call_expr(st, expr.callee, expr.arguments)

accept(st, node) ==
    CASE node.k = "Binary" ->
            visit_binary_expr(st, node.left, node.operator, node.right)
      [] node.k = "Grouping" -> visit_grouping_expr(st, node.expression)
      [] node.k = "Literal" -> visit_literal_expr(st, node.value)
      [] node.k = "Unary" -> visit_unary_expr(st, node.operator, node.right)
      [] node.k = "Variable" -> visit_variable_expr(st, node.name)
      [] node.k = "Assign" -> visit_assign_expr(st, node.name, node.value)
      [] node.k = "Logical" ->
            visit_logical_expr(st, node.left, node.operator, node.right)
      [] node.k = "Call" -> Expr_accept_call(st, node)
      [] node.k = "Expression" -> visit_expression_stmt(st, node.expression)
      [] node.k = "Print" -> visit_print_stmt(st, node.expression)
      [] node.k = "Var" -> visit_var_stmt(st, node.name, node.initializer)
      [] node.k = "Block" -> visit_block_stmt(st, node.statements)
      [] node.k = "If" ->
            visit_if_stmt(st, node.condition, node.then_branch, node.else_branch)
      [] node.k = "While" -> visit_while_stmt(st, node.condition, node.body)
      [] node.k = "Function" ->
            visit_function_stmt(st, node.name, node.params, node.body)
      [] node.k = "Return" -> visit_return_stmt(st, node.value)

----------------------------------------------------------------------------
(* Spec: one Interpreter, fed statement lists.                             *)
(*                                                                         *)
(* A run belongs to one script: a first statement list (index 0), then any *)
(* of the script's further lists in any order, each given to               *)
(* Interpreter::interpret on the same Interpreter, as the prompt loop of   *)
(* src/src/main.rs does.                                                   *)

Lit(value) == Expr_literal(value)
Ref(name) == Expr_variable(name)
Call0(name) == Expr_call(Expr_variable(name), <<>>)
Plus(left, right) == Expr_binary(left, "Plus", right)

\* fun mk() { var x = 0; fun inc() { x = x + 1; return x; } return inc; }
\* var c = mk(); print c(); print c(); var d = mk();
\* 1: print c();      2: print d();
CounterScript ==
    << << Stmt_function("mk", <<>>,
            << Stmt_var("x", Lit(Number(0))),
               Stmt_function("inc", <<>>,
                    << Stmt_expression(
                            Expr_assign("x", Plus(Ref("x"), Lit(Number(1))))),
                       Stmt_return_stmt(Ref("x")) >>),
               Stmt_return_stmt(Ref("inc")) >>),
          Stmt_var("c", Call0("mk")),
          Stmt_print(Call0("c")),
          Stmt_print(Call0("c")),
          Stmt_var("d", Call0("mk")) >>,
       << Stmt_print(Call0("c")) >>,
       << Stmt_print(Call0("d")) >> >>

\* var a = "global"; fun show() { print a; }
\* 1: { var a = "block"; show(); }
\* 2: fun wrap() { var a = "wrap"; show(); } wrap();
\* 3: show();
LexicalScript ==
    << << Stmt_var("a", Lit(String("global"))),
          Stmt_function("show", <<>>, << Stmt_print(Ref("a")) >>) >>,
       << Stmt_block(<< Stmt_var("a", Lit(String("block"))),
                        Stmt_expression(Call0("show")) >>) >>,
       << Stmt_function("wrap", <<>>,
            << Stmt_var("a", Lit(String("wrap"))),
               Stmt_expression(Call0("show")) >>),
          Stmt_expression(Call0("wrap")) >>,
       << Stmt_expression(Call0("show")) >> >>

\* var g = 0;
\* fun normal() { { g = g + 1; } }
\* fun ret() { while (true) { { return 7; } } }
\* fun err() { { var t = 1; -"x"; } }
\* fun outer() { normal(); var r = ret(); { err(); } return r; }
\* 1: normal();                       2: print ret();
\* 3: err(); print "unreached";       4: { var t = 2; { outer(); } print "unreached"; }
\* 5: return 5; print "unreached";    6: { if (true) return; }
\* 7: { var u = 1; } print g;
ExitsScript ==
    << << Stmt_var("g", Lit(Number(0))),
          Stmt_function("normal", <<>>,
            << Stmt_block(<< Stmt_expression(
                    Expr_assign("g", Plus(Ref("g"), Lit(Number(1))))) >>) >>),
          Stmt_function("ret", <<>>,
            << Stmt_while_stmt(Lit(Boolean(TRUE)),
                    Stmt_block(<< Stmt_block(<<
                        Stmt_return_stmt(Lit(Number(7))) >>) >>)) >>),
          Stmt_function("err", <<>>,
            << Stmt_block(<< Stmt_var("t", Lit(Number(1))),
                             Stmt_expression(
                                Expr_unary("Minus", Lit(String("x")))) >>) >>),
          Stmt_function("outer", <<>>,
            << Stmt_expression(Call0("normal")),
               Stmt_var("r", Call0("ret")),
               Stmt_block(<< Stmt_expression(Call0("err")) >>),
               Stmt_return_stmt(Ref("r")) >>) >>,
       << Stmt_expression(Call0("normal")) >>,
       << Stmt_print(Call0("ret")) >>,
       << Stmt_expression(Call0("err")), Stmt_print(Lit(String("unreached"))) >>,
       << Stmt_block(<< Stmt_var("t", Lit(Number(2))),
                        Stmt_block(<< Stmt_expression(Call0("outer")) >>),
                        Stmt_print(Lit(String("unreached"))) >>) >>,
       << Stmt_return_stmt(Lit(Number(5))), Stmt_print(Lit(String("unreached"))) >>,
       << Stmt_block(<< Stmt_if_stmt(Lit(Boolean(TRUE)),
                                     Stmt_return_stmt(None), None) >>) >>,
       << Stmt_block(<< Stmt_var("u", Lit(Number(1))) >>), Stmt_print(Ref("g")) >> >>

\* var a = 1; { var a = 2; } print a;
\* 1: { var a = 2; print a; } print a;
\* 2: var a = a + 10; print a;
\* 3: { var a = 3; { var a = 4; print a; } print a; } print a;
\* 4: { var b = 1; var b = 2; print b; }
\* 5: { a = 7; } print a;
ShadowScript ==
    << << Stmt_var("a", Lit(Number(1))),
          Stmt_block(<< Stmt_var("a", Lit(Number(2))) >>),
          Stmt_print(Ref("a")) >>,
       << Stmt_block(<< Stmt_var("a", Lit(Number(2))), Stmt_print(Ref("a")) >>),
          Stmt_print(Ref("a")) >>,
       << Stmt_var("a", Plus(Ref("a"), Lit(Number(10)))), Stmt_print(Ref("a")) >>,
       << Stmt_block(<< Stmt_var("a", Lit(Number(3))),
                        Stmt_block(<< Stmt_var("a", Lit(Number(4))),
                                      Stmt_print(Ref("a")) >>),
                        Stmt_print(Ref("a")) >>),
          Stmt_print(Ref("a")) >>,
       << Stmt_block(<< Stmt_var("b", Lit(Number(1))),
                        Stmt_var("b", Lit(Number(2))),
                        Stmt_print(Ref("b")) >>) >>,
       << Stmt_block(<< Stmt_expression(Expr_assign("a", Lit(Number(7)))) >>),
          Stmt_print(Ref("a")) >> >>

\* var g = 0; fun err() { { -"x"; } }
\* fun deep() { { err(); g = 100; var late = 1; print "unreached"; } g = 200; }
\* 1: { { deep(); } g = 300; print "unreached"; } var late = 1; print "unreached";
\* 2: g = g + 1; print g;
\* 3: deep(); var late = 2; g = 400;
\* 4: { var t = 1; { print missing; var late = 3; } g = 500; }
UnwindScript ==
    << << Stmt_var("g", Lit(Number(0))),
          Stmt_function("err", <<>>,
            << Stmt_block(<< Stmt_expression(
                                Expr_unary("Minus", Lit(String("x")))) >>) >>),
          Stmt_function("deep", <<>>,
            << Stmt_block(<< Stmt_expression(Call0("err")),
                             Stmt_expression(Expr_assign("g", Lit(Number(100)))),
                             Stmt_var("late", Lit(Number(1))),
                             Stmt_print(Lit(String("unreached"))) >>),
               Stmt_expression(Expr_assign("g", Lit(Number(200)))) >>) >>,
       << Stmt_block(<< Stmt_block(<< Stmt_expression(Call0("deep")) >>),
                        Stmt_expression(Expr_assign("g", Lit(Number(300)))),
                        Stmt_print(Lit(String("unreached"))) >>),
          Stmt_var("late", Lit(Number(1))),
          Stmt_print(Lit(String("unreached"))) >>,
       << Stmt_expression(Expr_assign("g", Plus(Ref("g"), Lit(Number(1))))),
          Stmt_print(Ref("g")) >>,
       << Stmt_expression(Call0("deep")),
          Stmt_var("late", Lit(Number(2))),
          Stmt_expression(Expr_assign("g", Lit(Number(400)))) >>,
       << Stmt_block(<< Stmt_var("t", Lit(Number(1))),
                        Stmt_block(<< Stmt_print(Ref("missing")),
                                      Stmt_var("late", Lit(Number(3))) >>),
                        Stmt_expression(Expr_assign("g", Lit(Number(500)))) >>) >> >>

\* the values the probes of the logic script return: true, false, nil, 0,
\* "", "s" and the native function clock
ProbeValues ==
    <<Boolean(TRUE), Boolean(FALSE), Nil, Number(0), String(""), String("s"),
      NativeFunction_Clock>>

ProbeName(k) == "P" \o ToString(k)

\* fun Pk() { print "Pk"; return <the k-th value>; }
Probe(k) ==
    Stmt_function(ProbeName(k), <<>>,
        << Stmt_print(Lit(String(ProbeName(k)))),
           Stmt_return_stmt(IF ProbeValues[k] = NativeFunction_Clock
                            THEN Ref("clock") ELSE Lit(ProbeValues[k])) >>)

\* the operator and the two probes of line i
LogicCase(i) ==
    LET n == Len(ProbeValues)
        j == i - 1
    IN [operator |-> IF j \div (n * n) = 0 THEN "Or" ELSE "And",
        a |-> ((j \div n) % n) + 1,
        b |-> (j % n) + 1]

\* fun P1() ... fun P7() ...; var r;
\* i: r = Pa() or Pb();    or    r = Pa() and Pb();
LogicScript ==
    << [k \in 1 .. Len(ProbeValues) + 1 |->
            IF k <= Len(ProbeValues) THEN Probe(k) ELSE Stmt_var("r", None)] >>
    \o [i \in 1 .. 2 * Len(ProbeValues) * Len(ProbeValues) |->
            << Stmt_expression(Expr_assign("r",
                    Expr_logical(Call0(ProbeName(LogicCase(i).a)),
                                 LogicCase(i).operator,
                                 Call0(ProbeName(LogicCase(i).b))))) >>]

\* fun one(a) { print "body"; return a; }  fun zero() { print "body"; }
\* 1: one();       2: one(1, 2);      3: zero(1);     4: clock(1);
\* 5: { var t = 1; one(); }           6: print one(3);
\* 7: clock();
ArityScript ==
    << << Stmt_function("one", <<"a">>,
            << Stmt_print(Lit(String("body"))), Stmt_return_stmt(Ref("a")) >>),
          Stmt_function("zero", <<>>,
            << Stmt_print(Lit(String("body"))) >>) >>,
       << Stmt_expression(Expr_call(Ref("one"), <<>>)) >>,
       << Stmt_expression(Expr_call(Ref("one"),
                                    <<Lit(Number(1)), Lit(Number(2))>>)) >>,
       << Stmt_expression(Expr_call(Ref("zero"), <<Lit(Number(1))>>)) >>,
       << Stmt_expression(Expr_call(Ref("clock"), <<Lit(Number(1))>>)) >>,
       << Stmt_block(<< Stmt_var("t", Lit(Number(1))),
                        Stmt_expression(Expr_call(Ref("one"), <<>>)) >>) >>,
       << Stmt_print(Expr_call(Ref("one"), <<Lit(Number(3))>>)) >>,
       << Stmt_expression(Expr_call(Ref("clock"), <<>>)) >> >>

Call2(callee, a, b) == Expr_call(callee, <<a, b>>)
Binary(left, operator, right) == Expr_binary(left, operator, right)

\* var g = 0;
\* fun A() { print "A"; return 1; }     fun B() { print "B"; return 2; }
\* fun E() { print "E"; return -"x"; }  fun f(x, y) { print "f"; return x + y; }
\* fun getf() { print "getf"; return f; }
\* 1: print A() + B();                  2: print A() - B() * A();
\* 3: print getf()(A(), B());           4: print E() + B();
\* 5: print A() + E() + B();            6: getf()(A(), E(), B());
\* 7: E()(A());                         8: print (A() < B()) == (B() > A());
\* 9: g = 0; print (g = g + 1) + g * 10;
OrderScript ==
    << << Stmt_var("g", Lit(Number(0))),
          Stmt_function("A", <<>>,
            << Stmt_print(Lit(String("A"))), Stmt_return_stmt(Lit(Number(1))) >>),
          Stmt_function("B", <<>>,
            << Stmt_print(Lit(String("B"))), Stmt_return_stmt(Lit(Number(2))) >>),
          Stmt_function("E", <<>>,
            << Stmt_print(Lit(String("E"))),
               Stmt_return_stmt(Expr_unary("Minus", Lit(String("x")))) >>),
          Stmt_function("f", <<"x", "y">>,
            << Stmt_print(Lit(String("f"))),
               Stmt_return_stmt(Plus(Ref("x"), Ref("y"))) >>),
          Stmt_function("getf", <<>>,
            << Stmt_print(Lit(String("getf"))), Stmt_return_stmt(Ref("f")) >>) >>,
       << Stmt_print(Plus(Call0("A"), Call0("B"))) >>,
       << Stmt_print(Binary(Call0("A"), "Minus",
                            Binary(Call0("B"), "Star", Call0("A")))) >>,
       << Stmt_print(Call2(Call0("getf"), Call0("A"), Call0("B"))) >>,
       << Stmt_print(Plus(Call0("E"), Call0("B"))) >>,
       << Stmt_print(Plus(Plus(Call0("A"), Call0("E")), Call0("B"))) >>,
       << Stmt_expression(Expr_call(Call0("getf"),
                                    <<Call0("A"), Call0("E"), Call0("B")>>)) >>,
       << Stmt_expression(Expr_call(Call0("E"), <<Call0("A")>>)) >>,
       << Stmt_print(Binary(Expr_grouping(Binary(Call0("A"), "Less", Call0("B"))),
                            "EqualEqual",
                            Expr_grouping(Binary(Call0("B"), "Greater",
                                                 Call0("A"))))) >>,
       << Stmt_expression(Expr_assign("g", Lit(Number(0)))),
          Stmt_print(Plus(Expr_grouping(Expr_assign("g", Plus(Ref("g"),
                                                           Lit(Number(1))))),
                          Binary(Ref("g"), "Star", Lit(Number(10))))) >> >>

Call1(name, a) == Expr_call(Ref(name), <<a>>)

\* fun fib(n) { if (n < 2) return n; return fib(n - 1) + fib(n - 2); }
\* 1: print fib(5);
\* 2: { fun down(n) { if (n < 1) return "done"; return down(n - 1); }
\*      print down(3); }
\* 3: var g = fib; fib = nil; print g(4); fib = g;
\* 4: { fun fact(n) { if (n < 2) return 1; return n * fact(n - 1); }
\*      { var k = fact; print k(4); } }
RecursionScript ==
    << << Stmt_function("fib", <<"n">>,
            << Stmt_if_stmt(Binary(Ref("n"), "Less", Lit(Number(2))),
                            Stmt_return_stmt(Ref("n")), None),
               Stmt_return_stmt(
                    Plus(Call1("fib", Binary(Ref("n"), "Minus", Lit(Number(1)))),
                         Call1("fib", Binary(Ref("n"), "Minus",
                                             Lit(Number(2)))))) >>) >>,
       << Stmt_print(Call1("fib", Lit(Number(5)))) >>,
       << Stmt_block(<<
            Stmt_function("down", <<"n">>,
                << Stmt_if_stmt(Binary(Ref("n"), "Less", Lit(Number(1))),
                                Stmt_return_stmt(Lit(String("done"))), None),
                   Stmt_return_stmt(
                        Call1("down", Binary(Ref("n"), "Minus",
                                             Lit(Number(1))))) >>),
            Stmt_print(Call1("down", Lit(Number(3)))) >>) >>,
       << Stmt_var("g", Ref("fib")),
          Stmt_expression(Expr_assign("fib", Lit(Nil))),
          Stmt_print(Call1("g", Lit(Number(4)))),
          Stmt_expression(Expr_assign("fib", Ref("g"))) >>,
       << Stmt_block(<<
            Stmt_function("fact", <<"n">>,
                << Stmt_if_stmt(Binary(Ref("n"), "Less", Lit(Number(2))),
                                Stmt_return_stmt(Lit(Number(1))), None),
                   Stmt_return_stmt(
                        Binary(Ref("n"), "Star",
                               Call1("fact", Binary(Ref("n"), "Minus",
                                                    Lit(Number(1)))))) >>),
            Stmt_block(<< Stmt_var("k", Ref("fact")),
                          Stmt_print(Call1("k", Lit(Number(4)))) >>) >>) >> >>

\* the scripts of which one list is interpreted after the first
OneLine == {"logic", "order"}

Scripts == {"counter", "lexical", "exits", "shadow", "unwind", "logic", "arity", "order", "recursion"}

\* the statement lists of a script: the first at index 0, then the others
Script(name) ==
    CASE name = "counter" -> CounterScript
      [] name = "lexical" -> LexicalScript
      [] name = "exits" -> ExitsScript
      [] name = "shadow" -> ShadowScript
      [] name = "unwind" -> UnwindScript
      [] name = "logic" -> LogicScript
      [] name = "arity" -> ArityScript
      [] name = "order" -> OrderScript
      [] name = "recursion" -> RecursionScript

\* the indices of the lists that may be interpreted after n calls
Choices(name, n) ==
    CASE n = 0 -> {0}
      [] n >= 2 /\ name \in OneLine -> {}
      [] OTHER -> 1 .. Len(Script(name)) - 1

\* the Interpreter as a record, and back
Self == [environments |-> environments, globals |-> globals,
         environment |-> environment, out |-> out, log |-> log]

Becomes(st) ==
    /\ environments' = st.environments
    /\ globals' = st.globals
    /\ environment' = st.environment
    /\ out' = st.out
    /\ log' = st.log

Init ==
    /\ script \in Scripts
    /\ environments = Interpreter_new.environments
    /\ globals = Interpreter_new.globals
    /\ environment = Interpreter_new.environment
    /\ out = <<>>
    /\ log = <<>>
    /\ result = [kind |-> "none"]
    /\ unit = <<>>
    /\ pc = 0
    /\ lines = <<>>
    /\ last = NoOp
    /\ DriverIdle

\* Interpreter::interpret is called with a statement list
StartInterpret ==
    /\ pc = 0
    /\ Len(lines) < MaxLines
    /\ \E i \in Choices(script, Len(lines)) :
        /\ unit' = Script(script)[i + 1]
        /\ lines' = Append(lines, i)
    /\ pc' = 1
    /\ log' = <<[ev |-> "interpret", environment |-> environment,
                 arena |-> environments, printed |-> Len(out)]>>
    /\ result' = [kind |-> "running"]
    /\ UNCHANGED <<environments, globals, environment, out, script, last>>
    /\ UNCHANGED dvars

\* one turn of its loop: statement.accept(self)?
ExecuteStatement ==
    /\ pc >= 1
    /\ pc <= Len(unit)
    /\ LET r == Stmt_accept(Self, unit[pc]) IN
        /\ Becomes(r.st)
        /\ IF IsErr(r)
           THEN /\ result' = [kind |-> r.kind, value |-> r.value,
                              message |-> r.message]
                /\ pc' = 0
           ELSE /\ result' = result
                /\ pc' = pc + 1
    /\ UNCHANGED <<unit, script, lines, last>>
    /\ UNCHANGED dvars

\* the loop is over: Ok(())
FinishInterpret ==
    /\ pc = Len(unit) + 1
    /\ result' = [kind |-> "Ok"]
    /\ pc' = 0
    /\ UNCHANGED <<environments, globals, environment, out, log, unit, script,
                   lines, last>>
    /\ UNCHANGED dvars

Next ==
    \/ StartInterpret
    \/ ExecuteStatement
    \/ FinishInterpret

Spec == Init /\ [][Next]_vars

----------------------------------------------------------------------------
(* Claims about the interpreter, checked under Spec *)

\* the events of one kind in the log of the running interpret call
Events(kind) == {i \in 1 .. Len(log) : log[i].ev = kind}

\* what the counter script prints: c has counted to 2 in the first list,
\* then every print of c() or d() shows that closure's own next number
RECURSIVE CounterOutput(_, _, _, _)
CounterOutput(ls, i, c, d) ==
    IF i > Len(ls) THEN <<>>
    ELSE CASE ls[i] = 0 -> <<"1", "2">> \o CounterOutput(ls, i + 1, 2, 0)
           [] ls[i] = 1 -> <<ToString(c + 1)>> \o CounterOutput(ls, i + 1, c + 1, d)
           [] ls[i] = 2 -> <<ToString(d + 1)>> \o CounterOutput(ls, i + 1, c, d + 1)

C2_CallFrameParentIsClosure ==
    /\ \A i \in Events("call") :
        /\ log[i].frame = log[i].issued
        /\ log[i].parent = log[i].closure
    /\ script = "lexical" => \A i \in 1 .. Len(out) : out[i] = "global"

\* show was called from a scope whose own a is "block", and printed
C2_Witness ==
    /\ script = "lexical"
    /\ out # <<>>
    /\ \E i \in Events("call") :
        /\ log[i].before # log[i].closure
        /\ get(environments, log[i].before, "a").value = String("block")

\* C3: after a call, on each of its three exit paths, the current
\* environment is the one that was current before the call.
C3_CallRestoresEnvironment ==
    \A i \in Events("call") : log[i].after = log[i].before

\* one interpret call saw a call end normally, one end by a return signal
\* and one end by a runtime error, the last from inside a block
C3_Witness ==
    /\ \E i \in Events("call") : log[i].path = "Ok"
    /\ \E i \in Events("call") : log[i].path = "ReturnValue"
    /\ \E i \in Events("call") :
        log[i].path = "RuntimeError" /\ log[i].before # globals

\* C4: a block installs exactly one fresh child of the environment current
\* at its entry, and on each of its three exit paths the current
\* environment is again the one of its entry.
C4_BlockRestoresEnvironment ==
    \A i \in Events("block") :
        /\ log[i].frame = log[i].issued
        /\ log[i].grown = 1
        /\ log[i].parent = log[i].before
        /\ log[i].after = log[i].before

\* one interpret call saw a block end normally, one passed a return signal
\* on and one passed a runtime error on
C4_Witness ==
    /\ \E i \in Events("block") : log[i].path = "Ok"
    /\ \E i \in Events("block") : log[i].path = "ReturnValue"
    /\ \E i \in Events("block") : log[i].path = "RuntimeError"

\* C5: a return signal is consumed by the nearest enclosing call, and none
\* comes out of Interpreter::interpret as its error.
C5_ReturnNeverLeavesInterpret ==
    result.kind # "ReturnValue"

\* what the shadow script prints; a is the global a
RECURSIVE ShadowOutput(_, _, _)
ShadowOutput(ls, i, a) ==
    IF i > Len(ls) THEN <<>>
    ELSE CASE ls[i] = 0 -> <<"1">> \o ShadowOutput(ls, i + 1, 1)
           [] ls[i] = 1 -> <<"2", ToString(a)>> \o ShadowOutput(ls, i + 1, a)
           [] ls[i] = 2 -> <<ToString(a + 10)>> \o ShadowOutput(ls, i + 1, a + 10)
           [] ls[i] = 3 -> <<"4", "3", ToString(a)>> \o ShadowOutput(ls, i + 1, a)
           [] ls[i] = 4 -> <<"2">> \o ShadowOutput(ls, i + 1, a)
           [] ls[i] = 5 -> <<"7">> \o ShadowOutput(ls, i + 1, 7)

\* C9: a declaration writes the current frame only, replacing a binding of
\* the name there and leaving every other frame as it was; a declaration in
\* a block shadows the outer binding until the block exits.
C9_DeclarationWritesCurrentFrame ==
    /\ \A i \in Events("var") :
        /\ Len(log[i].after) = Len(log[i].before)
        /\ \A j \in 1 .. Len(log[i].after) :
            /\ log[i].after[j].enclosing = log[i].before[j].enclosing
            /\ DOMAIN log[i].after[j].values =
                    DOMAIN log[i].before[j].values
                        \cup (IF j = log[i].env + 1 THEN {log[i].name} ELSE {})
            /\ \A n \in DOMAIN log[i].after[j].values :
                log[i].after[j].values[n] =
                    IF j = log[i].env + 1 /\ n = log[i].name
                    THEN log[i].value
                    ELSE log[i].before[j].values[n]
    /\ (script = "shadow" /\ pc = 0) => out = ShadowOutput(lines, 1, 0)

\* var a = 1; { var a = 2; } print a; printed 1, and after a redeclaration
\* of the global a two nested blocks shadowed it and it came back
C9_Witness ==
    /\ script = "shadow"
    /\ pc = 0
    /\ out = <<"1", "11", "4", "3", "11">>
    /\ \E i \in Events("var") :
        /\ log[i].env # globals
        /\ log[i].name \in DOMAIN log[i].before[globals + 1].values

----------------------------------------------------------------------------
(* Tokens: src/src/token.rs *)

Token_new(token_type, lexeme, literal, line) ==
    [token_type |-> token_type, lexeme |-> lexeme, literal |-> literal,
     line |-> line]

----------------------------------------------------------------------------
(* The parser: src/src/parser.rs.                                          *)
(*                                                                         *)
(* A parser is p = [tokens, current], current being the 0-based index of   *)
(* the source.  A rule takes the parser and returns the parser it leaves   *)
(* with Ok(node) or Err(ParseError): the cursor stays where the rule       *)
(* stopped, as the &mut self of the source does.  A node carries of a      *)
(* token what the interpreter reads: the lexeme of a name, the token_type  *)
(* of an operator.                                                         *)

Parser_new(toks) == [tokens |-> toks, current |-> 0]

ParseOk(p, node) == [ok |-> TRUE, p |-> p, node |-> node]
ParseErr(p, err) == [ok |-> FALSE, p |-> p, err |-> err]

peek(p) == p.tokens[p.current + 1]

previous(p) == p.tokens[p.current]

is_at_end(p) == peek(p).token_type = "Eof"

check(p, token_type) ==
    IF is_at_end(p) THEN FALSE ELSE peek(p).token_type = token_type

\* the parser after advance(); the token it returns is previous() of that
\* mutant of advance: the cursor moves also at end-of-input
advance_unchecked(p) == [p EXCEPT !.current = @ + 1]

advance(p) == IF ~is_at_end(p) THEN [p EXCEPT !.current = @ + 1] ELSE p

match_tokens(p, types) ==
    IF \E i \in 1 .. Len(types) : check(p, types[i])
    THEN [matched |-> TRUE, p |-> advance(p)]
    ELSE [matched |-> FALSE, p |-> p]

\* Parser::error: the ParseError
error(token, message) ==
    [message |-> IF token.token_type = "Eof"
                 THEN message \o " at end"
                 ELSE message \o " at '" \o token.lexeme \o "'",
     line |-> token.line]

consume(p, token_type, message) ==
    IF check(p, token_type)
    THEN ParseOk(advance(p), previous(advance(p)))
    ELSE ParseErr(p, error(peek(p), message))

\* mutant of synchronize_while: the loop does not look at the current
\* token, it stops after a semicolon only
RECURSIVE synchronize_while_semicolon(_)
synchronize_while_semicolon(p) ==
    IF is_at_end(p) THEN p
    ELSE IF previous(p).token_type = "Semicolon" THEN p
    ELSE synchronize_while_semicolon(advance(p))

\* the while loop of synchronize
RECURSIVE synchronize_while(_)
synchronize_while(p) ==
    IF is_at_end(p) THEN p
    ELSE IF previous(p).token_type = "Semicolon" THEN p
    ELSE IF peek(p).token_type \in {"Class", "Fun", "Var", "For", "If",
                                    "While", "Print", "Return"} THEN p
    ELSE synchronize_while(advance(p))

\* mutant of synchronize: no token is discarded
synchronize_stuck(p) == p

\* mutant of synchronize: every token up to end-of-input is discarded
synchronize_all(p) == [p EXCEPT !.current = Len(p.tokens) - 1]

synchronize(p) == synchronize_while(advance(p))

\* a call of the grammar method of that name
RECURSIVE rule(_, _)

\* r?, and what follows it
Try(r, Then(_)) == IF r.ok THEN Then(r) ELSE r

\* the loop of or, and, equality, comparison, term and factor:
\* while self.match_tokens(types) { operator = previous; right = operand()?;
\* expr = Expr::binary or Expr::logical (expr, operator, right) }
operator_while(a) ==
    LET m == match_tokens(a.p, a.types) IN
    IF ~m.matched THEN ParseOk(a.p, a.expr)
    ELSE LET operator == previous(m.p)
             right == rule(a.operand, m.p)
         IN IF ~right.ok THEN right
            ELSE rule("operator_while",
                      [a EXCEPT !.p = right.p,
                                !.expr = IF a.logical
                                         THEN Expr_logical(a.expr, operator.token_type,
                                                           right.node)
                                         ELSE Expr_binary(a.expr, operator.token_type,
                                                          right.node)])

primary(p) ==
    CASE match_tokens(p, <<"Identifier">>).matched ->
            ParseOk(advance(p), Expr_variable(previous(advance(p)).lexeme))
      [] match_tokens(p, <<"False">>).matched ->
            ParseOk(advance(p), Expr_literal(Boolean(FALSE)))
      [] match_tokens(p, <<"True">>).matched ->
            ParseOk(advance(p), Expr_literal(Boolean(TRUE)))
      [] match_tokens(p, <<"Nil">>).matched ->
            ParseOk(advance(p), Expr_literal(Nil))
      [] match_tokens(p, <<"Number", "String">>).matched ->
            ParseOk(advance(p), Expr_literal(previous(advance(p)).literal))
      [] match_tokens(p, <<"LeftParen">>).matched ->
            LET expr == rule("expression", advance(p)) IN
            IF ~expr.ok THEN expr
            ELSE LET c == consume(expr.p, "RightParen",
                                  "Expect ')' after expression.")
                 IN IF ~c.ok THEN c ELSE ParseOk(c.p, Expr_grouping(expr.node))
      [] OTHER -> ParseErr(p, error(peek(p), "Expect expression."))

unary(p) ==
    LET m == match_tokens(p, <<"Bang", "Minus">>) IN
    IF m.matched
    THEN LET operator == previous(m.p)
             right_expr == rule("unary", m.p)
         IN IF ~right_expr.ok THEN right_expr
            ELSE ParseOk(right_expr.p,
                         Expr_unary(operator.token_type, right_expr.node))
    ELSE rule("primary", p)

factor(p) ==
    LET expr == rule("unary", p) IN
    IF ~expr.ok THEN expr
    ELSE rule("operator_while",
              [p |-> expr.p, expr |-> expr.node, types |-> <<"Star", "Slash">>,
               operand |-> "unary", logical |-> FALSE])

\* mutant of term: the right operand is a whole term, + and - associate to
\* the right
term_right(p) ==
    LET expr == rule("factor", p) IN
    IF ~expr.ok THEN expr
    ELSE LET m == match_tokens(expr.p, <<"Plus", "Minus">>) IN
         IF ~m.matched THEN expr
         ELSE LET operator == previous(m.p)
                  right == rule("term", m.p)
              IN IF ~right.ok THEN right
                 ELSE ParseOk(right.p, Expr_binary(expr.node, operator.token_type,
                                                   right.node))

term(p) ==
    LET expr == rule("factor", p) IN
    IF ~expr.ok THEN expr
    ELSE rule("operator_while",
              [p |-> expr.p, expr |-> expr.node, types |-> <<"Plus", "Minus">>,
               operand |-> "factor", logical |-> FALSE])

comparison(p) ==
    LET expr == rule("term", p) IN
    IF ~expr.ok THEN expr
    ELSE rule("operator_while",
              [p |-> expr.p, expr |-> expr.node,
               types |-> <<"Greater", "GreaterEqual", "Less", "LessEqual">>,
               operand |-> "term", logical |-> FALSE])

equality(p) ==
    LET expr == rule("comparison", p) IN
    IF ~expr.ok THEN expr
    ELSE rule("operator_while",
              [p |-> expr.p, expr |-> expr.node,
               types |-> <<"BangEqual", "EqualEqual">>,
               operand |-> "comparison", logical |-> FALSE])

and(p) ==
    LET expr == rule("equality", p) IN
    IF ~expr.ok THEN expr
    ELSE rule("operator_while",
              [p |-> expr.p, expr |-> expr.node, types |-> <<"And">>,
               operand |-> "equality", logical |-> TRUE])

or(p) ==
    LET expr == rule("and", p) IN
    IF ~expr.ok THEN expr
    ELSE rule("operator_while",
              [p |-> expr.p, expr |-> expr.node, types |-> <<"Or">>,
               operand |-> "and", logical |-> TRUE])

assignment(p) ==
    LET expr == rule("or", p) IN
    IF ~expr.ok THEN expr
    ELSE LET m == match_tokens(expr.p, <<"Equal">>) IN
         IF ~m.matched THEN expr
         ELSE LET equals == previous(m.p)
                  value == rule("assignment", m.p)
              IN IF ~value.ok THEN value
                 ELSE IF expr.node.k = "Variable"
                 THEN ParseOk(value.p, Expr_assign(expr.node.name, value.node))
                 ELSE ParseErr(value.p,
                               error(equals, "Invalid assignment target."))

expression(p) == rule("assignment", p)

expression_statement(p) ==
    LET expr == rule("expression", p) IN
    IF ~expr.ok THEN expr
    ELSE LET c == consume(expr.p, "Semicolon", "Expect ';' after value.")
         IN IF ~c.ok THEN c ELSE ParseOk(c.p, Stmt_expression(expr.node))

var_declaration(p) ==
    LET name == consume(p, "Identifier", "Expect variable name.") IN
    IF ~name.ok THEN name
    ELSE LET m == match_tokens(name.p, <<"Equal">>)
             initializer == IF m.matched THEN rule("expression", m.p)
                            ELSE ParseOk(m.p, None)
         IN IF ~initializer.ok THEN initializer
            ELSE LET c == consume(initializer.p, "Semicolon",
                                  "Expect ';' after variable declaration.")
                 IN IF ~c.ok THEN c
                    ELSE ParseOk(c.p, Stmt_var(name.node.lexeme, initializer.node))

print_statement(p) ==
    LET value == rule("expression", p) IN
    IF ~value.ok THEN value
    ELSE LET c == consume(value.p, "Semicolon", "Expect ';' after expression.")
         IN IF ~c.ok THEN c ELSE ParseOk(c.p, Stmt_print(value.node))

\* the while loop of block, and its consume
block_while(a) ==
    IF ~check(a.p, "RightBrace") /\ ~is_at_end(a.p)
    THEN LET d == rule("declaration", a.p) IN
         IF ~d.ok THEN d
         ELSE rule("block_while",
                   [p |-> d.p, statements |-> Append(a.statements, d.node)])
    ELSE LET c == consume(a.p, "RightBrace", "Expect '}' after block.")
         IN IF ~c.ok THEN c ELSE ParseOk(c.p, a.statements)

block(p) == rule("block_while", [p |-> p, statements |-> <<>>])

if_statement(p) ==
    Try(consume(p, "LeftParen", "Expect '(' after 'if'."), LAMBDA open :
    Try(rule("expression", open.p), LAMBDA condition :
    Try(consume(condition.p, "RightParen", "Expect ')' after if condition."),
        LAMBDA close :
    Try(rule("statement", close.p), LAMBDA then_branch :
    Try(IF match_tokens(then_branch.p, <<"Else">>).matched
        THEN rule("statement", advance(then_branch.p))
        ELSE ParseOk(then_branch.p, None), LAMBDA else_branch :
    ParseOk(else_branch.p,
            Stmt_if_stmt(condition.node, then_branch.node, else_branch.node)))))))

while_statement(p) ==
    Try(consume(p, "LeftParen", "Expect '(' after 'while'."), LAMBDA open :
    Try(rule("expression", open.p), LAMBDA condition :
    Try(consume(condition.p, "RightParen", "Expect ')' after while condition."),
        LAMBDA close :
    Try(rule("statement", close.p), LAMBDA body :
    ParseOk(body.p, Stmt_while_stmt(condition.node, body.node))))))

\* mutant of for_to_while: the outer block is made also when the loop has
\* no initializer
for_to_while_always_block(initializer, condition, increment, body) ==
    LET with_increment ==
            IF increment.k # "None"
            THEN Stmt_block(<<body, Stmt_expression(increment)>>)
            ELSE body
        condition_expr ==
            IF condition.k # "None" THEN condition
            ELSE Expr_literal(Boolean(TRUE))
        loop == Stmt_while_stmt(condition_expr, with_increment)
    IN IF initializer.k # "None" THEN Stmt_block(<<initializer, loop>>)
       ELSE Stmt_block(<<loop>>)

\* the transformation of a for loop into a while loop
for_to_while(initializer, condition, increment, body) ==
    LET with_increment ==
            IF increment.k # "None"
            THEN Stmt_block(<<body, Stmt_expression(increment)>>)
            ELSE body
        condition_expr ==
            IF condition.k # "None" THEN condition
            ELSE Expr_literal(Boolean(TRUE))
        loop == Stmt_while_stmt(condition_expr, with_increment)
    IN IF initializer.k # "None" THEN Stmt_block(<<initializer, loop>>)
       ELSE loop

for_statement(p) ==
    Try(consume(p, "LeftParen", "Expect '(' after 'for'."), LAMBDA open :
    Try(CASE match_tokens(open.p, <<"Semicolon">>).matched ->
                ParseOk(advance(open.p), None)
          [] match_tokens(open.p, <<"Var">>).matched ->
                rule("var_declaration", advance(open.p))
          [] OTHER -> rule("expression_statement", open.p),
        LAMBDA initializer :
    Try(IF ~check(initializer.p, "Semicolon")
        THEN rule("expression", initializer.p)
        ELSE ParseOk(initializer.p, None), LAMBDA condition :
    Try(consume(condition.p, "Semicolon", "Expect ';' after loop condition."),
        LAMBDA after_condition :
    Try(IF ~check(after_condition.p, "RightParen")
        THEN rule("expression", after_condition.p)
        ELSE ParseOk(after_condition.p, None), LAMBDA increment :
    Try(consume(increment.p, "RightParen", "Expect ')' after for clauses."),
        LAMBDA close :
    Try(rule("statement", close.p), LAMBDA body :
    ParseOk(body.p, for_to_while(initializer.node, condition.node,
                                 increment.node, body.node)))))))))

statement(p) ==
    CASE match_tokens(p, <<"Print">>).matched -> rule("print_statement", advance(p))
      [] match_tokens(p, <<"If">>).matched -> rule("if_statement", advance(p))
      [] match_tokens(p, <<"While">>).matched -> rule("while_statement", advance(p))
      [] match_tokens(p, <<"LeftBrace">>).matched ->
            LET b == rule("block", advance(p)) IN
            IF ~b.ok THEN b ELSE ParseOk(b.p, Stmt_block(b.node))
      [] match_tokens(p, <<"For">>).matched -> rule("for_statement", advance(p))
      [] OTHER -> rule("expression_statement", p)

declaration(p) ==
    CASE match_tokens(p, <<"Var">>).matched -> rule("var_declaration", advance(p))
      [] match_tokens(p, <<"LeftBrace">>).matched ->
            LET b == rule("block", advance(p)) IN
            IF ~b.ok THEN b ELSE ParseOk(b.p, Stmt_block(b.node))
      [] OTHER -> rule("statement", p)

rule(name, a) ==
    CASE name = "declaration" -> declaration(a)
      [] name = "block" -> block(a)
      [] name = "block_while" -> block_while(a)
      [] name = "if_statement" -> if_statement(a)
      [] name = "while_statement" -> while_statement(a)
      [] name = "for_statement" -> for_statement(a)
      [] name = "statement" -> statement(a)
      [] name = "print_statement" -> print_statement(a)
      [] name = "var_declaration" -> var_declaration(a)
      [] name = "expression_statement" -> expression_statement(a)
      [] name = "assignment" -> assignment(a)
      [] name = "or" -> or(a)
      [] name = "and" -> and(a)
      [] name = "expression" -> expression(a)
      [] name = "equality" -> equality(a)
      [] name = "comparison" -> comparison(a)
      [] name = "term" -> term(a)
      [] name = "factor" -> factor(a)
      [] name = "unary" -> unary(a)
      [] name = "primary" -> primary(a)
      [] name = "operator_while" -> operator_while(a)

----------------------------------------------------------------------------
(* The error reporter: src/src/error.rs *)

\* the line ErrorReporter::report writes
report(line, location, message) ==
    "[line " \o ToString(line) \o "] Error" \o location \o ": " \o message

----------------------------------------------------------------------------
(* SpecRun: the driver, src/src/main.rs.                                   *)
(*                                                                         *)
(* A source unit is the text of a file or one line typed at the prompt.    *)
(* The scanner is not part of src/; a unit is given as its lexemes, and    *)
(* Tokens builds the token vector the parser is handed.                    *)

\* every unit below is one line of text
SourceLine == 1

Punctuation ==
    [token_type |-> <<"LeftParen", "RightParen", "LeftBrace", "RightBrace",
                      "Comma", "Minus", "Plus", "Semicolon", "Slash", "Star",
                      "Bang", "BangEqual", "Equal", "EqualEqual", "Greater",
                      "GreaterEqual", "Less", "LessEqual">>,
     lexeme |-> <<"(", ")", "{", "}", ",", "-", "+", ";", "/", "*", "!", "!=",
                  "=", "==", ">", ">=", "<", "<=">>]

Keywords ==
    [token_type |-> <<"And", "Class", "Else", "False", "Fun", "For", "If",
                      "Nil", "Or", "Print", "Return", "True", "Var", "While">>,
     lexeme |-> <<"and", "class", "else", "false", "fun", "for", "if", "nil",
                  "or", "print", "return", "true", "var", "while">>]

NumberLexemes == <<"0", "1", "2", "3">>
StringLexemes == <<"\"then\"", "\"else\"">>
StringLiterals == <<"then", "else">>

IndexOf(seq, x) == CHOOSE i \in 1 .. Len(seq) : seq[i] = x
Contains(seq, x) == \E i \in 1 .. Len(seq) : seq[i] = x

\* the token of one lexeme
Token_of(lexeme) ==
    CASE Contains(Punctuation.lexeme, lexeme) ->
            Token_new(Punctuation.token_type[IndexOf(Punctuation.lexeme, lexeme)],
                      lexeme, None, SourceLine)
      [] Contains(Keywords.lexeme, lexeme) ->
            Token_new(Keywords.token_type[IndexOf(Keywords.lexeme, lexeme)],
                      lexeme, None, SourceLine)
      [] Contains(NumberLexemes, lexeme) ->
            Token_new("Number", lexeme,
                      Number(IndexOf(NumberLexemes, lexeme) - 1), SourceLine)
      [] Contains(StringLexemes, lexeme) ->
            Token_new("String", lexeme,
                      String(StringLiterals[IndexOf(StringLexemes, lexeme)]),
                      SourceLine)
      [] OTHER -> Token_new("Identifier", lexeme, None, SourceLine)

\* the token vector of a unit: its tokens, then end-of-input
Tokens(lexemes) ==
    [i \in 1 .. Len(lexemes) + 1 |->
        IF i <= Len(lexemes) THEN Token_of(lexemes[i])
        ELSE Token_new("Eof", "", None, SourceLine)]

\* for (var i = 0; i < n; i = i + 1) print i;
ForLoop(n) ==
    <<"for", "(", "var", "i", "=", "0", ";", "i", "<", n, ";",
      "i", "=", "i", "+", "1", ")", "print", "i", ";">>

\* { var i = 0; while (i < n) { print i; i = i + 1; } }
WhileLoop(n) ==
    <<"{", "var", "i", "=", "0", ";", "while", "(", "i", "<", n, ")",
      "{", "print", "i", ";", "i", "=", "i", "+", "1", ";", "}", "}">>

\* the units a run reads
Sources ==
    << <<"print", "1", ";", "var", ";">>,
       <<"var", ";">>,
       <<"print", "1", "+", "2", "*", "3", ";">>,
       <<"var", "a", "=", "1", ";", "print", "a", ";">>,
       <<"a", "=", "a", "+", "1", ";", "print", "a", ";">>,
       <<"print", "(", "1", ";", "print", "2", ";">>,
       <<"1", "=", "2", ";", "print", "3", ";">>,
       <<"{", "var", "b", "=", "2", ";", "print", "b", ";", "}", "print">>,
       <<"for", "(", "var", "i", "=", "0", ";", "i", "<", "2", ";",
         "i", "=", "i", "+", "1", ")", "print", "i", ";">>,
       <<"if", "(", "true", "and", "!", "nil", ")", "print", "\"then\"", ";",
         "else", "print", "\"else\"", ";",
         "while", "(", "false", ")", "print", "0", ";">>,
       <<"print", "-", "\"then\"", ";", "print", "2", ";">>,
       <<>>,
       <<"fun", "f", "(", ")", "{", "print", "1", ";", "}">>,
       <<"return", "1", ";">>,
       <<"f", "(", "a", ")", "(", "b", ")", ";">>,
       <<"f", "(", ")", ";">>,
       <<"var", "a", ";", "var", "b", ";", "print", "a", "=", "b", "=", "1", ";",
         "print", "a", ";", "print", "b", ";">>,
       <<"print", "3", "-", "2", "-", "1", ";",
         "print", "3", "*", "2", "+", "1", ";",
         "print", "1", "or", "2", "and", "3", "==", "3", "<", "2", "+", "1",
         "*", "-", "2", ";">>,
       ForLoop("0") \o ForLoop("1") \o ForLoop("2") \o ForLoop("3"),
       WhileLoop("0") \o WhileLoop("1") \o WhileLoop("2") \o WhileLoop("3"),
       <<"for", "(", ";", "false", ";", ")", "print", "1", ";",
         "for", "(", ";", "false", ";", "1", ")", "print", "1", ";",
         "for", "(", "var", "c", "=", "0", ";", "false", ";", ")",
         "print", "1", ";",
         "for", "(", "1", ";", "false", ";", "1", ")", "print", "1", ";">>,
       <<"for", "(", ";", ";", ")", "print", "-", "\"then\"", ";",
         "for", "(", ";", ";", "1", ")", "print", "-", "\"then\"", ";",
         "for", "(", "var", "c", "=", "0", ";", ";", ")",
         "print", "-", "\"then\"", ";",
         "for", "(", "var", "c", "=", "0", ";", ";", "c", "=", "1", ")",
         "print", "-", "\"then\"", ";">>,
       <<"{", "print", "1", ";">>,
       <<")", ";", "2", ";">> >>

\* the Parser of Parser::parse's loop
Self_parser == [tokens |-> tokens, current |-> current]

InitRun ==
    /\ mode \in {"file", "repl"}
    /\ dpc = "start"
    /\ tokens = <<>>
    /\ current = 0
    /\ parsed = <<>>
    /\ had_error = FALSE
    /\ stderr = <<>>
    /\ exit_code = NoneId
    \* run_prompt creates the interpreter first, run after parsing
    /\ environments = IF mode = "repl" THEN Interpreter_new.environments
                      ELSE EnvironmentArena_new
    /\ globals = IF mode = "repl" THEN Interpreter_new.globals ELSE NoneId
    /\ environment = IF mode = "repl" THEN Interpreter_new.environment ELSE NoneId
    /\ out = <<>>
    /\ log = <<>>
    /\ result = [kind |-> "none"]
    /\ unit = <<>>
    /\ pc = 0
    /\ script = ""
    /\ lines = <<>>
    /\ last = NoOp

\* run_prompt: the prompt is written and a line is read; run_file: the
\* file is read.  The scanner returns Ok(tokens) and a Parser is made.
ReadSource ==
    /\ dpc = "start"
    /\ Len(lines) < (IF mode = "repl" THEN MaxUnits ELSE 1)
    /\ \E i \in 1 .. Len(Sources) :
        /\ tokens' = Tokens(Sources[i])
        /\ lines' = Append(lines, i)
    /\ current' = 0
    /\ parsed' = <<>>
    /\ out' = IF mode = "repl" THEN Append(out, "> ") ELSE out
    /\ unit' = <<>>
    /\ result' = [kind |-> "none"]
    /\ dpc' = "parse"
    /\ UNCHANGED <<environments, globals, environment, log, pc, script, last,
                   mode, had_error, stderr, exit_code>>

\* what the scanner wrote for its errors
ScanErrors == "scan errors"

\* run / run_repl: the scanner returns Err(errors)
ScanFails ==
    /\ dpc = "start"
    /\ Len(lines) < (IF mode = "repl" THEN MaxUnits ELSE 1)
    /\ lines' = Append(lines, 0)
    /\ out' = IF mode = "repl" THEN Append(out, "> ") ELSE out
    /\ stderr' = stderr \o <<ScanErrors, report(0, "", "Scanning failed")>>
    /\ had_error' = TRUE
    /\ unit' = <<>>
    /\ result' = [kind |-> "none"]
    /\ dpc' = "ran"
    /\ UNCHANGED <<environments, globals, environment, log, pc, script, last,
                   mode, tokens, current, parsed, exit_code>>

\* Parser::parse: one turn of its loop
ParseDeclaration ==
    /\ dpc = "parse"
    /\ ~is_at_end(Self_parser)
    /\ LET r == declaration(Self_parser) IN
        IF r.ok
        THEN /\ parsed' = Append(parsed, r.node)
             /\ current' = r.p.current
             /\ UNCHANGED <<had_error, stderr>>
        ELSE /\ stderr' = Append(stderr, report(r.err.line, "", r.err.message))
             /\ had_error' = TRUE
             /\ current' = synchronize(r.p).current
             /\ UNCHANGED parsed
    /\ UNCHANGED <<environments, globals, environment, out, log, result, unit,
                   pc, script, lines, last, mode, dpc, tokens, exit_code>>

\* Parser::parse returns None: run / run_repl return
ParseReturnsNone ==
    /\ dpc = "parse"
    /\ is_at_end(Self_parser)
    /\ parsed = <<>>
    /\ dpc' = "ran"
    /\ UNCHANGED <<environments, globals, environment, out, log, result, unit,
                   pc, script, lines, last, mode, tokens, current, parsed,
                   had_error, stderr, exit_code>>

\* mutant of ParseReturnsSome: run_repl makes an Interpreter of its own, as
\* run does
ParseReturnsSome_fresh ==
    /\ dpc = "parse"
    /\ is_at_end(Self_parser)
    /\ parsed # <<>>
    /\ environments' = Interpreter_new.environments
    /\ globals' = Interpreter_new.globals
    /\ environment' = Interpreter_new.environment
    /\ unit' = parsed
    /\ pc' = 1
    /\ log' = <<[ev |-> "interpret", environment |-> environment',
                 arena |-> environments', printed |-> Len(out)]>>
    /\ result' = [kind |-> "running"]
    /\ dpc' = "interpret"
    /\ UNCHANGED <<out, script, lines, last, mode, tokens, current, parsed,
                   had_error, stderr, exit_code>>

\* Parser::parse returns Some(statements): run makes an Interpreter, and
\* run / run_repl call interpret(&statements)
ParseReturnsSome ==
    /\ dpc = "parse"
    /\ is_at_end(Self_parser)
    /\ parsed # <<>>
    /\ IF mode = "file"
       THEN /\ environments' = Interpreter_new.environments
            /\ globals' = Interpreter_new.globals
            /\ environment' = Interpreter_new.environment
       ELSE UNCHANGED <<environments, globals, environment>>
    /\ unit' = parsed
    /\ pc' = 1
    /\ log' = <<[ev |-> "interpret", environment |-> environment',
                 arena |-> environments', printed |-> Len(out)]>>
    /\ result' = [kind |-> "running"]
    /\ dpc' = "interpret"
    /\ UNCHANGED <<out, script, lines, last, mode, tokens, current, parsed,
                   had_error, stderr, exit_code>>

\* what run / run_repl write for the Err of interpret
RuntimeErrorLine(r) ==
    CASE r.kind = "RuntimeError" ->
            "[line " \o ToString(SourceLine) \o "] Runtime Error: " \o r.message
      [] r.kind = "ReturnValue" -> "Runtime error: Return: " \o Display(r.value)
      [] r.kind = "Error" -> "Runtime error: " \o r.message

\* interpret has returned: run / run_repl write its error, and return
InterpretReturns ==
    /\ dpc = "interpret"
    /\ pc = 0
    /\ stderr' = IF result.kind = "Ok" THEN stderr
                 ELSE Append(stderr, RuntimeErrorLine(result))
    /\ dpc' = "ran"
    /\ UNCHANGED <<environments, globals, environment, out, log, result, unit,
                   pc, script, lines, last, mode, tokens, current, parsed,
                   had_error, exit_code>>

\* run_file: exit(65) after a reported error, else main returns;
\* run_prompt: error_reporter.reset(), and the loop goes on
RunReturns ==
    /\ dpc = "ran"
    /\ IF mode = "file"
       THEN /\ exit_code' = IF had_error THEN 65 ELSE 0
            /\ dpc' = "exited"
            /\ UNCHANGED had_error
       ELSE /\ had_error' = FALSE
            /\ dpc' = "start"
            /\ UNCHANGED exit_code
    /\ UNCHANGED <<environments, globals, environment, out, log, result, unit,
                   pc, script, lines, last, mode, tokens, current, parsed,
                   stderr>>

\* run_prompt: read_line returns Ok(0), the loop breaks and main returns
EndOfInput ==
    /\ dpc = "start"
    /\ mode = "repl"
    /\ out' = Append(out, "> ")
    /\ exit_code' = 0
    /\ dpc' = "exited"
    /\ UNCHANGED <<environments, globals, environment, log, result, unit, pc,
                   script, lines, last, mode, tokens, current, parsed,
                   had_error, stderr>>

NextRun ==
    \/ ReadSource
    \/ ScanFails
    \/ ParseDeclaration
    \/ ParseReturnsNone
    \/ ParseReturnsSome
    \/ ExecuteStatement
    \/ FinishInterpret
    \/ InterpretReturns
    \/ RunReturns
    \/ EndOfInput

SpecRun == InitRun /\ [][NextRun]_vars

----------------------------------------------------------------------------
(* Claims about the driver, checked under SpecRun *)

\* interpret was called for the unit being run and has evaluated one of
\* its statements
Evaluated == unit # <<>> /\ pc # 1

\* C6: once the parser has reported a parse error for a unit, no statement
\* of that unit is evaluated, in file mode and in REPL mode, also when some
\* of its statements were parsed.
C6_ParseErrorSkipsEvaluation ==
    (had_error /\ lines # <<>> /\ lines[Len(lines)] # 0) => ~Evaluated

----------------------------------------------------------------------------
(* More claims about the interpreter, checked under Spec *)

\* the environment that was current when the running interpret was called
AtInterpret == log[1].environment

\* the g that line 2 of the unwind script has counted up, and nothing else
\* has written
UnwindOutput(ls) ==
    LET twos == {i \in 1 .. Len(ls) : ls[i] = 2}
    IN [n \in 1 .. Cardinality(twos) |-> ToString(n)]

\* C11: a runtime error raised at any depth of blocks and calls is what
\* interpret returns; no statement after the failing point runs (no print,
\* no definition, no assignment), and every block and call on the way has
\* restored its environment, so interpret returns in the environment it was
\* called in.
C11_RuntimeErrorUnwinds ==
    /\ (result.kind = "RuntimeError" /\ log # <<>>) =>
        /\ pc = 0
        /\ environment = AtInterpret
        /\ \A i \in Events("call") \cup Events("block") :
            log[i].path = "RuntimeError" => log[i].after = log[i].before
    /\ script = "unwind" =>
        /\ pc = 0 => out = UnwindOutput(lines)
        /\ "late" \notin DOMAIN frame(environments, globals).values
        /\ \A i \in 1 .. Len(environments) :
            "late" \notin DOMAIN environments[i].values
        /\ (pc = 0 /\ Len(lines) >= 2 /\ lines[Len(lines)] # 2) =>
            /\ result.kind = "RuntimeError"
            /\ result.message =
                IF lines[Len(lines)] = 4 THEN "Undefined variable 'missing'."
                ELSE "Operand must be a number."

\* the error came up through two calls and three blocks, after an earlier
\* interpret call had failed and a later one had run normally
C11_Witness ==
    /\ script = "unwind"
    /\ lines = <<0, 3, 2, 1>>
    /\ result.kind = "RuntimeError"
    /\ Cardinality({i \in Events("call") : log[i].path = "RuntimeError"}) = 2
    /\ Cardinality({i \in Events("block") : log[i].path = "RuntimeError"}) = 4
    /\ out = <<"1">>

\* only nil and false are falsy
Falsy(v) == v = Nil \/ v = Boolean(FALSE)

\* the line of the logic script that was interpreted
LogicDone == script = "logic" /\ pc = 0 /\ Len(lines) = 2

TheCase == LogicCase(lines[2])

\* the left operand decides the result of that line
ShortCircuits ==
    IF TheCase.operator = "Or" THEN ~Falsy(ProbeValues[TheCase.a])
    ELSE Falsy(ProbeValues[TheCase.a])

\* C12: in A or B with a truthy A, and in A and B with a falsy A, B is not
\* evaluated (its print does not happen); otherwise B is evaluated exactly
\* once, after A.
C12_ShortCircuit ==
    LogicDone =>
        /\ result.kind = "Ok"
        /\ out = IF ShortCircuits THEN <<ProbeName(TheCase.a)>>
                 ELSE <<ProbeName(TheCase.a), ProbeName(TheCase.b)>>

\* 0 or ...: 0 is truthy and the right probe did not print; nil or ...: both
\* printed, left first
C12_Witness ==
    /\ LogicDone
    /\ \/ /\ TheCase = [operator |-> "Or", a |-> 4, b |-> 1]
          /\ out = <<"P4">>
       \/ /\ TheCase = [operator |-> "And", a |-> 3, b |-> 6]
          /\ out = <<"P3">>

\* C13: x or y is x itself when x is truthy and y otherwise; x and y is x
\* itself when x is falsy and y otherwise; the result is the operand's
\* value, not a Boolean made from it.
C13_LogicalReturnsOperand ==
    LogicDone =>
        get(environments, globals, "r").value =
            IF ShortCircuits THEN ProbeValues[TheCase.a]
            ELSE ProbeValues[TheCase.b]

\* "" or ... is "", and nil and ... is nil
C13_Witness ==
    /\ LogicDone
    /\ \/ /\ TheCase = [operator |-> "Or", a |-> 5, b |-> 1]
          /\ get(environments, globals, "r").value = String("")
       \/ /\ TheCase = [operator |-> "And", a |-> 3, b |-> 1]
          /\ get(environments, globals, "r").value = Nil

\* how many of the lists interpreted so far are list k
Count(ls, k) == Cardinality({i \in 1 .. Len(ls) : ls[i] = k})

\* what the arity script prints: line 6 alone runs a body
ArityOutput(ls) ==
    [n \in 1 .. 2 * Count(ls, 6) |-> IF n % 2 = 1 THEN "body" ELSE "3"]

\* the message of the call that line k of the arity script makes
ArityMessage(k) ==
    CASE k \in {1, 5} -> "Expected 1 arguments but got 0."
      [] k = 2 -> "Expected 1 arguments but got 2."
      [] k \in {3, 4} -> "Expected 0 arguments but got 1."

\* C14: a call of a user function or of a native function with the wrong
\* number of arguments raises "Expected N arguments but got M.", runs no
\* statement of the body and installs no call frame: the current
\* environment is the one before the call.
C14_ArityMismatchRejected ==
    (script = "arity" /\ pc = 0 /\ Len(lines) >= 2) =>
        /\ out = ArityOutput(lines)
        /\ environment = globals
        /\ Len(environments) = 1 + Count(lines, 5) + Count(lines, 6)
        /\ lines[Len(lines)] \in 1 .. 5 =>
            /\ result.kind = "RuntimeError"
            /\ result.message = ArityMessage(lines[Len(lines)])
            /\ Events("call") = {}
            /\ \A i \in Events("block") : log[i].after = log[i].before

\* a user function was called with too many arguments after a native one
\* was called with one too many and a correct call had run the body
C14_Witness ==
    /\ script = "arity"
    /\ lines = <<0, 6, 4, 2>>
    /\ pc = 0
    /\ result.message = "Expected 1 arguments but got 2."
    /\ out = <<"body", "3">>

\* what line k of the order script prints when its sub-expressions are
\* evaluated from left to right, and whether it ends in an error
OrderOutput(k) ==
    CASE k = 1 -> <<"A", "B", "3">>
      [] k = 2 -> <<"A", "B", "A", "-1">>
      [] k = 3 -> <<"getf", "A", "B", "f", "3">>
      [] k = 4 -> <<"E">>
      [] k = 5 -> <<"A", "E">>
      [] k = 6 -> <<"getf", "A", "E">>
      [] k = 7 -> <<"E">>
      [] k = 8 -> <<"A", "B", "B", "A", "true">>
      [] k = 9 -> <<"11">>

OrderFails(k) == k \in {4, 5, 6, 7}

\* C15: the sub-expressions of a node are evaluated from left to right: the
\* left operand of a binary expression with its side effects before the
\* right one, the callee of a call before the arguments and the arguments
\* in source order; after an error in one of them none of the later ones is
\* evaluated.
C15_LeftToRight ==
    (script = "order" /\ pc = 0 /\ Len(lines) = 2) =>
        /\ out = OrderOutput(lines[2])
        /\ result.kind = IF OrderFails(lines[2]) THEN "RuntimeError" ELSE "Ok"
        /\ OrderFails(lines[2]) => result.message = "Operand must be a number."

\* the callee printed before the arguments, the second argument failed and
\* neither the third argument nor the function ran
C15_Witness ==
    /\ script = "order"
    /\ pc = 0
    /\ lines = <<0, 6>>
    /\ out = <<"getf", "A", "E">>
    /\ result.kind = "RuntimeError"

\* the Fibonacci numbers, by the recurrence the script's fib is written from
RECURSIVE Fib(_)
Fib(n) == IF n < 2 THEN n ELSE Fib(n - 1) + Fib(n - 2)

\* what line k of the recursion script prints
RecursionLine(k) ==
    CASE k = 0 -> <<>>
      [] k = 1 -> <<ToString(Fib(5))>>
      [] k = 2 -> <<"done">>
      [] k = 3 -> <<ToString(Fib(4))>>
      [] k = 4 -> <<"24">>

RECURSIVE RecursionOutput(_, _)
RecursionOutput(ls, i) ==
    IF i > Len(ls) THEN <<>>
    ELSE RecursionLine(ls[i]) \o RecursionOutput(ls, i + 1)

\* C16: a function declared at top level or in a block can call itself: at
\* every depth the function's own name, looked up from its call
\* environment, is bound to that same function and not to nil, so fib
\* returns the Fibonacci numbers, of which the tenth is 55.  The calls are
\* interpreted five levels deep.
C16_FunctionCallsItself ==
    /\ \A i \in Events("call") :
        /\ log[i].own.ok
        /\ log[i].own.value = log[i].callee
    /\ script = "recursion" =>
        /\ result.kind \in {"none", "running", "Ok"}
        /\ pc = 0 => out = RecursionOutput(lines, 1)
        /\ Fib(10) = 55

\* fib(5) made 15 calls and printed 5, after a block-local function had
\* called itself four levels deep
C16_Witness ==
    /\ script = "recursion"
    /\ pc = 0
    /\ lines = <<0, 2, 1>>
    /\ out = <<"done", "5">>
    /\ Cardinality(Events("call")) = 15

----------------------------------------------------------------------------
(* Claims about the parser, checked under SpecRun *)

\* the unit being run, 0 after a scan failure or before the first unit
Current == IF lines = <<>> THEN 0 ELSE lines[Len(lines)]

\* Parser::parse is about to return for the unit being run
ParseReturns == dpc = "parse" /\ is_at_end(Self_parser)

\* the units of Sources that the claims below are about
FunUnit == <<"fun", "f", "(", ")", "{", "print", "1", ";", "}">>
ReturnUnit == <<"return", "1", ";">>
CallCallUnit == <<"f", "(", "a", ")", "(", "b", ")", ";">>
CallUnit == <<"f", "(", ")", ";">>
AssignUnit ==
    <<"var", "a", ";", "var", "b", ";", "print", "a", "=", "b", "=", "1", ";",
      "print", "a", ";", "print", "b", ";">>

IsUnit(lexemes) == Current # 0 /\ Sources[Current] = lexemes

\* C17: the parser implements funDecl and returnStmt: fun f() { print 1; }
\* is parsed, with no error reported, into one Function statement with the
\* name, the parameters and the body, and return 1; into a Return statement.
C17_FunctionAndReturnParsed ==
    ParseReturns =>
        /\ IsUnit(FunUnit) =>
            /\ ~had_error
            /\ parsed = << Stmt_function("f", <<>>,
                                         <<Stmt_print(Lit(Number(1)))>>) >>
        /\ IsUnit(ReturnUnit) =>
            /\ ~had_error
            /\ parsed = << Stmt_return_stmt(Lit(Number(1))) >>

\* C18: every parenthesised argument group after a primary extends the
\* expression into a Call node: f(a)(b); parses without error into
\* Call(Call(f, [a]), [b]) and f(); into a Call with no arguments.
C18_CallsParsed ==
    ParseReturns =>
        /\ IsUnit(CallCallUnit) =>
            /\ ~had_error
            /\ parsed = << Stmt_expression(
                            Expr_call(Expr_call(Ref("f"), <<Ref("a")>>),
                                      <<Ref("b")>>)) >>
        /\ IsUnit(CallUnit) =>
            /\ ~had_error
            /\ parsed = << Stmt_expression(Expr_call(Ref("f"), <<>>)) >>

\* { var i = 0; while (i < n) { print i; i = i + 1; } }
LoopAst(n) ==
    Stmt_block(<<
        Stmt_var("i", Lit(Number(0))),
        Stmt_while_stmt(
            Binary(Ref("i"), "Less", Lit(Number(n))),
            Stmt_block(<<
                Stmt_print(Ref("i")),
                Stmt_expression(
                    Expr_assign("i", Plus(Ref("i"), Lit(Number(1))))) >>)) >>)

\* print -"then";
FailingPrint == Stmt_print(Expr_unary("Minus", Lit(String("then"))))

\* the top-level statements of unit i that the grammar of parser.rs derives
\* with no error, read off the unit by hand
ParsedOf(i) ==
    CASE i = 1 -> << Stmt_print(Lit(Number(1))) >>
      [] i = 2 -> <<>>
      [] i = 3 -> << Stmt_print(Plus(Lit(Number(1)),
                                     Binary(Lit(Number(2)), "Star",
                                            Lit(Number(3))))) >>
      [] i = 4 -> << Stmt_var("a", Lit(Number(1))), Stmt_print(Ref("a")) >>
      [] i = 5 -> << Stmt_expression(
                        Expr_assign("a", Plus(Ref("a"), Lit(Number(1))))),
                     Stmt_print(Ref("a")) >>
      [] i = 6 -> << Stmt_print(Lit(Number(2))) >>
      [] i = 7 -> << Stmt_print(Lit(Number(3))) >>
      [] i = 8 -> << Stmt_block(<< Stmt_var("b", Lit(Number(2))),
                                   Stmt_print(Ref("b")) >>) >>
      [] i = 9 -> << Stmt_block(<<
                        Stmt_var("i", Lit(Number(0))),
                        Stmt_while_stmt(
                            Binary(Ref("i"), "Less", Lit(Number(2))),
                            Stmt_block(<<
                                Stmt_print(Ref("i")),
                                Stmt_expression(
                                    Expr_assign("i", Plus(Ref("i"),
                                                          Lit(Number(1)))))
                                >>)) >>) >>
      [] i = 10 -> << Stmt_if_stmt(
                        Expr_logical(Lit(Boolean(TRUE)), "And",
                                     Expr_unary("Bang", Lit(Nil))),
                        Stmt_print(Lit(String("then"))),
                        Stmt_print(Lit(String("else")))),
                      Stmt_while_stmt(Lit(Boolean(FALSE)),
                                      Stmt_print(Lit(Number(0)))) >>
      [] i = 11 -> << Stmt_print(Expr_unary("Minus", Lit(String("then")))),
                      Stmt_print(Lit(Number(2))) >>
      [] i = 12 -> <<>>
      [] i = 13 -> << Stmt_print(Lit(Number(1))) >>
      [] i = 14 -> <<>>
      [] i = 15 -> <<>>
      [] i = 16 -> <<>>
      [] i = 17 -> << Stmt_var("a", None), Stmt_var("b", None),
                      Stmt_print(Expr_assign("a",
                                    Expr_assign("b", Lit(Number(1))))),
                      Stmt_print(Ref("a")), Stmt_print(Ref("b")) >>
      [] i = 18 -> << Stmt_print(Binary(Binary(Lit(Number(3)), "Minus",
                                               Lit(Number(2))),
                                        "Minus", Lit(Number(1)))),
                      Stmt_print(Plus(Binary(Lit(Number(3)), "Star",
                                             Lit(Number(2))),
                                      Lit(Number(1)))),
                      Stmt_print(
                        Expr_logical(Lit(Number(1)), "Or",
                          Expr_logical(Lit(Number(2)), "And",
                            Binary(Lit(Number(3)), "EqualEqual",
                              Binary(Lit(Number(3)), "Less",
                                Plus(Lit(Number(2)),
                                     Binary(Lit(Number(1)), "Star",
                                            Expr_unary("Minus",
                                                       Lit(Number(2))))))))))
                      >>
      [] i \in {19, 20} -> << LoopAst(0), LoopAst(1), LoopAst(2), LoopAst(3) >>
      [] i = 21 -> << Stmt_while_stmt(Lit(Boolean(FALSE)),
                                      Stmt_print(Lit(Number(1)))),
                      Stmt_while_stmt(Lit(Boolean(FALSE)),
                        Stmt_block(<< Stmt_print(Lit(Number(1))),
                                      Stmt_expression(Lit(Number(1))) >>)),
                      Stmt_block(<<
                        Stmt_var("c", Lit(Number(0))),
                        Stmt_while_stmt(Lit(Boolean(FALSE)),
                                        Stmt_print(Lit(Number(1)))) >>),
                      Stmt_block(<<
                        Stmt_expression(Lit(Number(1))),
                        Stmt_while_stmt(Lit(Boolean(FALSE)),
                          Stmt_block(<< Stmt_print(Lit(Number(1))),
                                        Stmt_expression(Lit(Number(1))) >>))
                        >>) >>
      [] i = 22 -> << Stmt_while_stmt(Lit(Boolean(TRUE)), FailingPrint),
                      Stmt_while_stmt(Lit(Boolean(TRUE)),
                        Stmt_block(<< FailingPrint,
                                      Stmt_expression(Lit(Number(1))) >>)),
                      Stmt_block(<<
                        Stmt_var("c", Lit(Number(0))),
                        Stmt_while_stmt(Lit(Boolean(TRUE)), FailingPrint) >>),
                      Stmt_block(<<
                        Stmt_var("c", Lit(Number(0))),
                        Stmt_while_stmt(Lit(Boolean(TRUE)),
                          Stmt_block(<< FailingPrint,
                                        Stmt_expression(
                                            Expr_assign("c", Lit(Number(1))))
                                        >>)) >>) >>
      [] i = 23 -> <<>>
      [] i = 24 -> << Stmt_expression(Lit(Number(2))) >>

\* the units with a top-level statement in which the parser reports an error
ErrorUnits == {1, 2, 6, 7, 8, 13, 14, 15, 16, 23, 24}

\* Parser::parse has returned for the unit being run
ParseReturned == dpc \in {"interpret", "ran"} /\ Current # 0

\* C19: Parser::parse returns no list only when no statement could be
\* parsed; otherwise it returns exactly the successfully parsed top-level
\* statements in source order, and never a statement in which an error was
\* reported.
C19_ParseReturnsTheParsed ==
    ParseReturned =>
        /\ unit = ParsedOf(Current)
        /\ result.kind = "none" <=> ParsedOf(Current) = <<>>
        /\ had_error <=> Current \in ErrorUnits

\* print 1; var; : the statement with the error is dropped and the list of
\* the one statement parsed before it is returned and run
C19_Witness ==
    /\ ParseReturned
    /\ Current = 1
    /\ had_error
    /\ unit = << Stmt_print(Lit(Number(1))) >>
    /\ dpc = "interpret"

\* C20: a = b = 1 parses as Assign(a, Assign(b, 1)); after evaluation a and
\* b are both bound to 1, and the value of the assignment expression is the
\* value assigned.
C20_AssignmentRightAssociative ==
    IsUnit(AssignUnit) =>
        /\ ParseReturns =>
            /\ ~had_error
            /\ Len(parsed) = 5
            /\ parsed[3] = Stmt_print(Expr_assign("a",
                                Expr_assign("b", Lit(Number(1)))))
        /\ (dpc = "interpret" /\ pc >= 4) =>
            /\ out[Len(out) - (pc - 4)] = "1"
            /\ Env_get(Self, environment, "a").value = Number(1)
            /\ Env_get(Self, environment, "b").value = Number(1)
        /\ (dpc = "interpret" /\ pc = 0) =>
            /\ result.kind = "Ok"
            /\ SubSeq(out, Len(out) - 2, Len(out)) = <<"1", "1", "1">>

\* the unit was run to its end
C20_Witness ==
    /\ IsUnit(AssignUnit)
    /\ dpc = "interpret"
    /\ pc = 0
    /\ result.kind = "Ok"
    /\ unit[3].expression.value.k = "Assign"
    /\ Env_get(Self, environment, "a").value = Number(1)
    /\ Env_get(Self, environment, "b").value = Number(1)

\* what the running interpret has printed
Printed == SubSeq(out, log[1].printed + 1, Len(out))

\* the statements of the unit that the running interpret has executed
Done == IF pc = 0 THEN Len(unit) ELSE pc - 1

\* interpret runs or has run the statements of unit i
Interprets(i) == dpc = "interpret" /\ Current = i

\* C21: the binary operators of one level associate to the left and the
\* levels bind in the order or, and, equality, comparison, term, factor,
\* unary: 3 - 2 - 1 is (3 - 2) - 1, 3 * 2 + 1 is (3 * 2) + 1, the chain
\* 1 or 2 and 3 == 3 < 2 + 1 * -2 nests level in level, and 1 + 2 * 3 is
\* 1 + (2 * 3) and evaluates to 7.
C21_PrecedenceAndAssociativity ==
    /\ (ParseReturns /\ Current \in {3, 18}) =>
        /\ ~had_error
        /\ parsed = ParsedOf(Current)
    /\ (Interprets(3) /\ pc = 0) => Printed = <<"7">>
    /\ (Interprets(18) /\ pc = 0) => Printed = <<"0", "7", "1">>

\* the precedence unit was parsed and run to its end
C21_Witness ==
    /\ Interprets(18)
    /\ pc = 0
    /\ result.kind = "Ok"
    /\ unit[1].expression.left.k = "Binary"
    /\ unit[3].expression.right.right.right.right.right.right.k = "Unary"

\* what the loops for N = 0 .. n - 1 print: 0 .. N - 1 each
RECURSIVE LoopsPrint(_)
LoopsPrint(n) ==
    IF n = 0 THEN <<>>
    ELSE LoopsPrint(n - 1) \o [k \in 1 .. n - 1 |-> ToString(k - 1)]

\* the frames interpret was called with are as they were
FramesKept ==
    /\ Len(environments) >= Len(log[1].arena)
    /\ SubSeq(environments, 1, Len(log[1].arena)) = log[1].arena

\* C22: for N = 0 .. 3, for (var i = 0; i < N; i = i + 1) print i; and
\* { var i = 0; while (i < N) { print i; i = i + 1; } } are the same
\* statement to the interpreter and print the same lines; they leave the
\* enclosing environment as it was, and i is not visible after the loop.
C22_ForEquivalentToWhile ==
    /\ (ParseReturns /\ Current \in {19, 20}) =>
        /\ ~had_error
        /\ parsed = <<LoopAst(0), LoopAst(1), LoopAst(2), LoopAst(3)>>
    /\ (Interprets(19) \/ Interprets(20)) =>
        /\ result.kind \in {"running", "Ok"}
        /\ Printed = LoopsPrint(Done)
        /\ environment = log[1].environment
        /\ FramesKept
        /\ ~Env_get(Self, environment, "i").ok

\* a session ran the for loops and then the while blocks
C22_Witness ==
    /\ lines = <<19, 20>>
    /\ Interprets(20)
    /\ pc = 0
    /\ Printed = <<"0", "0", "1", "0", "1", "2">>
    /\ SubSeq(out, 2, 7) = Printed

\* C24: in file mode, a script whose interpretation ends with a runtime
\* error makes the process exit with a non-zero status.
C24_RuntimeErrorExitsNonZero ==
    (mode = "file" /\ dpc = "exited" /\ result.kind = "RuntimeError") =>
        exit_code # 0

\* C25: for 1 = 2; print 3; the parser reports "Invalid assignment
\* target." against the = token, and the assignment rule returns the
\* left-hand side 1, so the statement 1 = 2; is parsed to its end as an
\* expression statement.
C25_InvalidTargetGoesOn ==
    (ParseReturns /\ Current = 7) =>
        /\ stderr[Len(stderr)] = "[line 1] Error: Invalid assignment target. at '='"
        /\ parsed = << Stmt_expression(Lit(Number(1))),
                       Stmt_print(Lit(Number(3))) >>

ForShapesUnits == {9, 21, 22}

\* C27: a for loop becomes a While whose condition is the loop's, or true
\* when there is none; whose body is Block[body, Expression(incr)] when
\* there is an increment and the body itself when there is none; wrapped in
\* Block[init, While] exactly when there is an initializer.
C27_ForDesugaring ==
    (ParseReturns /\ Current \in ForShapesUnits) =>
        /\ ~had_error
        /\ parsed = ParsedOf(Current)

\* the unit of the four loops without condition was parsed
C27_Witness ==
    /\ ParseReturns
    /\ Current = 22
    /\ Len(parsed) = 4
    /\ parsed[1].k = "While"
    /\ parsed[1].condition = Lit(Boolean(TRUE))
    /\ parsed[1].body.k = "Print"
    /\ parsed[4].k = "Block"

\* the value of the global a after the first k lines of a session, -1 while
\* a is not declared: var a = 1; declares it, a = a + 1; adds one to it when
\* it is declared, var a; ... a = b = 1; makes it 1, no other unit writes it
RECURSIVE GlobalA(_, _)
GlobalA(ls, k) ==
    IF k = 0 THEN -1
    ELSE LET before == GlobalA(ls, k - 1) IN
         CASE ls[k] \in {4, 17} -> 1
           [] ls[k] = 5 /\ before >= 0 -> before + 1
           [] OTHER -> before

\* the lines of the session that failed: a scan, parse or runtime error
Failed(ls, k) ==
    \/ ls[k] = 0
    \/ ls[k] \in ErrorUnits
    \/ ls[k] \in {11, 22}
    \/ ls[k] = 5 /\ GlobalA(ls, k - 1) < 0

\* C23: at the prompt one interpreter serves every line: the global a has
\* the value the lines so far have given it, whatever lines failed in
\* between, and a line that reads it reads that value.
C23_ReplKeepsBindings ==
    mode = "repl" =>
        /\ dpc \in {"start", "exited"} =>
            LET a == Env_get(Self, globals, "a") IN
            /\ a.ok <=> GlobalA(lines, Len(lines)) >= 0
            /\ a.ok => a.value = Number(GlobalA(lines, Len(lines)))
        /\ (Interprets(5) /\ pc = 0 /\ GlobalA(lines, Len(lines) - 1) >= 0) =>
            Printed = <<ToString(GlobalA(lines, Len(lines)))>>

\* a was declared by the first line, the second line failed, and the third
\* line read a and wrote it again
C23_Witness ==
    /\ mode = "repl"
    /\ Len(lines) = 3
    /\ lines[1] = 4
    /\ Failed(lines, 2)
    /\ Interprets(5)
    /\ pc = 0
    /\ Printed = <<"2">>

\* the index of the end-of-input token, counted as Parser.current counts
EofIndex == Len(tokens) - 1

\* Parser::parse is at the top of its loop and will call declaration
AtDeclaration == dpc = "parse" /\ ~is_at_end(Self_parser)

\* the parser with its cursor at c
At(p, c) == [p EXCEPT !.current = c]

\* a cursor position at which panic-mode recovery stops
StopsAt(p) ==
    \/ peek(p).token_type = "Eof"
    \/ previous(p).token_type = "Semicolon"
    \/ peek(p).token_type \in {"Class", "Fun", "Var", "For", "If", "While",
                               "Print", "Return"}

\* the first stopping position after the cursor
FirstStop(p) ==
    CHOOSE c \in p.current + 1 .. Len(p.tokens) - 1 :
        /\ StopsAt(At(p, c))
        /\ \A d \in p.current + 1 .. c - 1 : ~StopsAt(At(p, d))

\* C26 as stated: synchronize always discards at least one token, and
\* stops at the first position after the cursor where the previous token
\* is ; or the current token starts a statement or is end-of-input.
C26_SynchronizeAsStated ==
    AtDeclaration =>
        LET r == declaration(Self_parser) IN
        ~r.ok =>
            /\ synchronize(r.p).current >= r.p.current + 1
            /\ synchronize(r.p).current = FirstStop(r.p)

\* C26: called with the cursor at end-of-input synchronize discards
\* nothing; otherwise it discards at least one token and stops at the first
\* position after the cursor where the previous token is ; or the current
\* token starts a statement or is end-of-input, and discards no token after
\* such a position.
C26_SynchronizeStopsAtFirstBoundary ==
    AtDeclaration =>
        LET r == declaration(Self_parser) IN
        ~r.ok =>
            IF is_at_end(r.p)
            THEN synchronize(r.p).current = r.p.current
            ELSE /\ synchronize(r.p).current >= r.p.current + 1
                 /\ synchronize(r.p).current = FirstStop(r.p)

\* fun f ( ) { print 1 ; } : the error is at fun, five tokens are discarded
\* and the cursor stops at print
C26_Witness ==
    /\ AtDeclaration
    /\ Sources[Current] = FunUnit
    /\ current = 0
    /\ ~declaration(Self_parser).ok
    /\ synchronize(declaration(Self_parser).p).current = 5
    /\ peek(synchronize(declaration(Self_parser).p)).token_type = "Print"

\* C29: the token vector ends with end-of-input and the cursor stays in
\* 0 .. the index of that token, across declaration and synchronize; and
\* synchronize evaluates previous() at positions >= 1 only, also after an
\* error on the first token or at end-of-input.
C29_CursorInBounds ==
    tokens # <<>> =>
        /\ tokens[Len(tokens)].token_type = "Eof"
        /\ current \in 0 .. EofIndex
        /\ AtDeclaration =>
            LET r == declaration(Self_parser) IN
            /\ r.p.current \in current .. EofIndex
            /\ ~r.ok =>
                /\ advance(r.p).current \in 1 .. EofIndex
                /\ synchronize(r.p).current \in advance(r.p).current .. EofIndex

\* a declaration fails on the first token of a unit, and another at
\* end-of-input
C29_Witness ==
    /\ AtDeclaration
    /\ ~declaration(Self_parser).ok
    /\ \/ current = 0 /\ declaration(Self_parser).p.current = 0
       \/ is_at_end(declaration(Self_parser).p)
    /\ Len(lines) = 2
    /\ lines[1] = 24
    /\ lines[2] = 8

\* SpecRun in which the thread that runs Parser::parse keeps running: a turn
\* of the loop is taken while the loop condition holds (weak fairness of
\* ParseDeclaration, written out: the action is enabled exactly in the
\* states of AtDeclaration and each of its steps changes current or stderr),
\* and parse returns once the loop has ended.
SpecRunLive ==
    /\ InitRun
    /\ [][NextRun]_vars
    /\ ([]<>(~AtDeclaration) \/ []<><<AtDeclaration>>_vars)
    /\ WF_vars(ParseReturnsNone \/ ParseReturnsSome)

\* C30: every turn of the loop of Parser::parse moves the cursor forward,
\* after a parsed declaration and after synchronize alike, the cursor never
\* passes end-of-input, and Parser::parse returns.
C30_ParseTerminates ==
    /\ [](AtDeclaration =>
            LET r == declaration(Self_parser) IN
            /\ r.ok => r.p.current \in current + 1 .. EofIndex
            /\ ~r.ok => synchronize(r.p).current \in current + 1 .. EofIndex)
    /\ [][(dpc = "parse" /\ dpc' = "parse") => current' > current]_vars
    /\ (dpc = "parse") ~> (dpc # "parse")

\* parse has returned for { print 1 ; after the loop of block stopped at
\* end-of-input
C30_Witness ==
    /\ Current = 23
    /\ dpc = "ran"
    /\ had_error
    /\ current = EofIndex

====
